---- MODULE Spec2Model ----
(***************************************************************************)
(* A model of the meadowgrid coordinator (src/src/meadowgrid/coordinator.py)*)
(* as a state machine: the two job maps of MeadowGridCoordinatorHandler are *)
(* the state, every RPC handler is one atomic action.                       *)
(*                                                                         *)
(* Conventions                                                             *)
(*  - a Python dict is a function whose DOMAIN is the key set; the dict     *)
(*    all_tasks, whose insertion order is observable, is the sequence of    *)
(*    its values in insertion order;                                        *)
(*  - the deque unassigned_tasks holds references to the _GridTask objects  *)
(*    of all_tasks; a reference is modelled by the task_id, the key under   *)
(*    which the object is stored (an object is never replaced);             *)
(*  - pickled_function_arguments is an opaque payload that no handler       *)
(*    inspects; it is left out of GridTask and _GridTask;                   *)
(*  - a raised ValueError is the status "ValueError".                       *)
(*                                                                         *)
(* The module also models the meadowdb reader (src/src/meadowdb/reader.py) *)
(* and the meadowflow job runner                                           *)
(* (src/src/meadowflow/meadowrun_job_runner.py), each with variables and   *)
(* specifications of its own.                                              *)
(***************************************************************************)
EXTENDS Integers, Sequences, FiniteSets, TLC

(***************************************************************************)
(* Bounds of the model.                                                    *)
(***************************************************************************)
\* task ids that requests may carry are -1 .. MaxTaskId (update requests also -2)
MaxTaskId == 1

\* the longest batch of job states of an UpdateJobStates request
MaxBatch == 1

(***************************************************************************)
(* Input sets.                                                             *)
(***************************************************************************)
\* well-formed job ids
ValidJobIds == {"a", "b"}

\* job ids a request may carry: well-formed, empty, with a forbidden character
RequestJobIds == ValidJobIds \cup {"", "a b"}

\* friendly names a request may carry: well-formed, with a forbidden character
FriendlyNames == {"n", "n!"}

\* priorities a request may carry
Priorities == {0, 1}

\* the job id that only simple submissions use
SimpleJobId == "b"

\* Job.WhichOneof("job_spec") of the requests; "none" is a Job with no job_spec
\* set (py_function, which add_job treats as py_command, is not submitted)
JobSpecs == {"py_command", "py_grid", "none"}

\* ProcessState.ProcessStateEnum
ProcessStateEnum ==
    {"RUN_REQUESTED", "ASSIGNED", "RUNNING", "SUCCEEDED", "PYTHON_EXCEPTION",
     "NON_ZERO_RETURN_CODE", "CANCELLED", "RUN_REQUEST_FAILED", "UNKNOWN",
     "ERROR_GETTING_STATE", "REQUEST_IS_DUPLICATE"}

\* the states that workers report in this model
ReportedStates == {"RUN_REQUESTED", "SUCCEEDED"}

\* task ids of the tasks of a request
RequestTaskIds == (-1) .. MaxTaskId

\* task lists of a request: no task, one task, two tasks
TaskLists == UNION {[1 .. n -> RequestTaskIds] : n \in 0 .. 2}

VARIABLES
    simple_jobs,   \* self._simple_jobs : job_id -> _SimpleJob
    grid_jobs,     \* self._grid_jobs   : job_id -> _GridJob
    dispatched,    \* history: job_id -> the task ids >= 0 that
                   \* update_grid_task_state_and_get_next returned, in order
    last,          \* the last RPC: its name, the request's key fields and the
                   \* response
    calls,         \* worker -> the RPC the worker has in flight: where its
                   \* handler stands and what it read and returned
    mdb_table,     \* the MdbTable at hand (src/src/meadowdb/reader.py): its
                   \* _version_number, _table_schema, _data_list and _ops
    materialized,  \* what to_pd returned for mdb_table, if it was called
    bool_column,   \* the bool column at hand (MdbComputedBoolColumnOpArg or
                   \* MdbComputedBoolColumnOpColumn)
    table_versions,\* userspace -> the current TableVersion of the table, or
                   \* NoneValue
    last_read,     \* the last call of read: its userspace and how it ended
    tables,        \* the MdbTable objects that exist, in order of creation; a
                   \* list attribute holds a reference into lists
    lists,         \* the Python list objects that exist, in order of creation
    event_log,     \* the events of the job's topic, oldest first
    process,       \* the meadowrun server's state of the run request
    run_call,      \* MeadowRunJobRunner.run: where the coroutine stands
    poll_call,     \* MeadowRunJobRunner.poll_jobs: where the coroutine stands
    client_call    \* _create_run_py_func_request: its call and its outcome

vars ==
    <<simple_jobs, grid_jobs, dispatched, last, calls, mdb_table, materialized,
      bool_column, table_versions, last_read, tables, lists, event_log,
      process, run_call, poll_call, client_call>>

\* the variables of the coordinator and of its workers
GridVars == <<simple_jobs, grid_jobs, dispatched, last, calls>>

\* the variables of the reader, of the predicates, of the table versions, of
\* the query builder and of the job runner
ReaderVars == <<mdb_table, materialized>>

PredicateVars == <<bool_column>>

RegistryVars == <<table_versions, last_read>>

BuilderVars == <<tables, lists>>

RunnerVars == <<event_log, process, run_call, poll_call>>

\* the variable of the nextrun client
ClientVars == <<client_call>>

\* the variables that no step of the coordinator touches
OutsideGrid ==
    <<ReaderVars, PredicateVars, RegistryVars, BuilderVars, RunnerVars, ClientVars>>

\* the variables that no handler step of a serial caller touches
OutsideCoordinator == <<calls, OutsideGrid>>

\* the variables that no step of the reader touches
OutsideReader ==
    <<GridVars, PredicateVars, RegistryVars, BuilderVars, RunnerVars, ClientVars>>

(***************************************************************************)
(* Messages.                                                               *)
(***************************************************************************)
\* the protobuf message Job; tasks and all_tasks_added are those of py_grid
Job(job_id, job_friendly_name, priority, job_spec, tasks, all_tasks_added) ==
    [job_id |-> job_id, job_friendly_name |-> job_friendly_name,
     priority |-> priority, job_spec |-> job_spec, tasks |-> tasks,
     all_tasks_added |-> all_tasks_added]

\* Job(): every field at its protobuf default
EmptyJob == Job("", "", 0, "none", <<>>, FALSE)

\* the AddJob requests: any job id, friendly name and priority with any
\* job_spec but py_grid; py_grid with any job id but SimpleJobId, with any task
\* list and flag when the job id and the friendly name are well-formed
AddJobRequests ==
    {Job(r[1], r[2], r[3], r[4], <<>>, FALSE) :
        r \in RequestJobIds \X FriendlyNames \X Priorities \X (JobSpecs \ {"py_grid"})}
    \cup
    {Job(r[1], r[2], r[3], "py_grid", <<>>, FALSE) :
        r \in (RequestJobIds \ {SimpleJobId}) \X FriendlyNames \X Priorities}
    \cup
    {Job(r[1], "n", r[2], "py_grid", r[3], r[4]) :
        r \in (ValidJobIds \ {SimpleJobId}) \X Priorities \X TaskLists \X BOOLEAN}

\* the elements of a sequence
Range(seq) == {seq[i] : i \in 1 .. Len(seq)}

\* the empty function (an empty dict)
EmptyDict == [k \in {} |-> 0]

\* d[key] = value
DictSet(d, key, value) ==
    [k \in DOMAIN d \cup {key} |-> IF k = key THEN value ELSE d[k]]

(***************************************************************************)
(* Validation helpers of add_job.                                          *)
(***************************************************************************)
\* any(c not in JOB_ID_VALID_CHARACTERS for c in s): letters, digits, ".", "-"
\* and "_" are permitted; of the strings of this model "a b" and "n!" hold a
\* forbidden character
HasInvalidCharacters(s) == s \in {"a b", "n!"}

\* faulty variant of JobIdExists: only the grid-job map is looked up
JobIdExistsGridOnly(job_id) == job_id \in DOMAIN grid_jobs

\* faulty variant of JobIdExists: only the simple-job map is looked up
JobIdExistsSimpleOnly(job_id) == job_id \in DOMAIN simple_jobs

\* request.job_id in self._grid_jobs or request.job_id in self._simple_jobs
JobIdExists(job_id) ==
    job_id \in DOMAIN grid_jobs \/ job_id \in DOMAIN simple_jobs

\* request.priority <= 0
PriorityInvalid(priority) == priority <= 0

(***************************************************************************)
(* _GridTask, _GridJob, _SimpleJob and the helpers on all_tasks.           *)
(***************************************************************************)
_GridTask(task_id, state) == [task_id |-> task_id, state |-> state]

_GridJob(job, all_tasks, unassigned_tasks, all_tasks_added, num_current_grid_workers) ==
    [job |-> job, all_tasks |-> all_tasks, unassigned_tasks |-> unassigned_tasks,
     all_tasks_added |-> all_tasks_added,
     num_current_grid_workers |-> num_current_grid_workers]

_SimpleJob(job, state) == [job |-> job, state |-> state]

\* the keys of the dict all_tasks, in insertion order
TaskIdsOf(all_tasks) == [i \in 1 .. Len(all_tasks) |-> all_tasks[i].task_id]

\* task_id in grid_job.all_tasks
TaskExists(all_tasks, task_id) ==
    \E i \in 1 .. Len(all_tasks) : all_tasks[i].task_id = task_id

\* faulty variant of SetTaskState: the reported state is written to every
\* task of the job
SetEveryTaskState(all_tasks, task_id, state) ==
    [i \in 1 .. Len(all_tasks) |-> _GridTask(all_tasks[i].task_id, state)]

\* grid_job.all_tasks[task_id].state = state
SetTaskState(all_tasks, task_id, state) ==
    [i \in 1 .. Len(all_tasks) |->
        IF all_tasks[i].task_id = task_id
        THEN _GridTask(task_id, state)
        ELSE all_tasks[i]]

\* grid_job.all_tasks[task_id].state
TaskState(all_tasks, task_id) ==
    LET i == CHOOSE i \in 1 .. Len(all_tasks) : all_tasks[i].task_id = task_id
    IN  all_tasks[i].state

(***************************************************************************)
(* _add_tasks_to_grid_job: the loop body for one task_request, then the    *)
(* loop.  The result is the grid job as the call leaves it and whether the *)
(* call raised; a raise stops the loop and keeps what earlier iterations   *)
(* did to grid_job.                                                        *)
(***************************************************************************)
\* faulty variant of QueueAppend: appendleft puts the task at the front
QueuePrepend(unassigned_tasks, task_id) == <<task_id>> \o unassigned_tasks

\* grid_job.unassigned_tasks.append(grid_task)
QueueAppend(unassigned_tasks, task_id) == Append(unassigned_tasks, task_id)

\* faulty variant of SealedRejects: the all_tasks_added check is missing
SealedNeverRejects(grid_job) == FALSE

\* if grid_job.all_tasks_added: raise ValueError
SealedRejects(grid_job) == grid_job.all_tasks_added

AddOneTask(grid_job, task_id) ==
    IF ~TaskExists(grid_job.all_tasks, task_id)
    THEN IF SealedRejects(grid_job)
         THEN [grid_job |-> grid_job, raised |-> TRUE]
         ELSE IF task_id < 0
         THEN [grid_job |-> grid_job, raised |-> TRUE]
         ELSE [grid_job |->
                  [grid_job EXCEPT
                     !.all_tasks = Append(@, _GridTask(task_id, "RUN_REQUESTED")),
                     !.unassigned_tasks = QueueAppend(@, task_id)],
               raised |-> FALSE]
    ELSE [grid_job |-> grid_job, raised |-> FALSE]

RECURSIVE _add_tasks_to_grid_job(_, _)
_add_tasks_to_grid_job(grid_job, tasks) ==
    IF tasks = <<>>
    THEN [grid_job |-> grid_job, raised |-> FALSE]
    ELSE LET one == AddOneTask(grid_job, Head(tasks))
         IN  IF one.raised
             THEN one
             ELSE _add_tasks_to_grid_job(one.grid_job, Tail(tasks))

(***************************************************************************)
(* add_job as a function of the request and the current state: the two     *)
(* maps as the handler leaves them and the response.                       *)
(***************************************************************************)
Outcome(sj, gj, status) == [simple_jobs |-> sj, grid_jobs |-> gj, status |-> status]

\* faulty variant of add_job_result: the grid job is stored in the map
\* before its tasks are added, so a task that is refused leaves it there
add_job_result_storing_first(request) ==
    IF request.job_id = ""
    THEN Outcome(simple_jobs, grid_jobs, "ValueError")
    ELSE IF HasInvalidCharacters(request.job_id)
            \/ HasInvalidCharacters(request.job_friendly_name)
    THEN Outcome(simple_jobs, grid_jobs, "ValueError")
    ELSE IF JobIdExists(request.job_id)
    THEN Outcome(simple_jobs, grid_jobs, "IS_DUPLICATE")
    ELSE IF PriorityInvalid(request.priority)
    THEN Outcome(simple_jobs, grid_jobs, "ValueError")
    ELSE IF request.job_spec = "py_command" \/ request.job_spec = "py_function"
    THEN Outcome(DictSet(simple_jobs, request.job_id,
                         _SimpleJob(request, "RUN_REQUESTED")),
                 grid_jobs, "ADDED")
    ELSE IF request.job_spec = "py_grid"
    THEN LET added == _add_tasks_to_grid_job(
                          _GridJob(request, <<>>, <<>>, FALSE, 0), request.tasks)
         IN  IF added.raised
             THEN Outcome(simple_jobs,
                          DictSet(grid_jobs, request.job_id, added.grid_job),
                          "ValueError")
             ELSE Outcome(simple_jobs,
                          DictSet(grid_jobs, request.job_id,
                                  [added.grid_job EXCEPT
                                     !.job.tasks = <<>>,
                                     !.all_tasks_added = request.all_tasks_added]),
                          "ADDED")
    ELSE Outcome(simple_jobs, grid_jobs, "ValueError")

add_job_result(request) ==
    IF request.job_id = ""
    THEN Outcome(simple_jobs, grid_jobs, "ValueError")
    ELSE IF HasInvalidCharacters(request.job_id)
            \/ HasInvalidCharacters(request.job_friendly_name)
    THEN Outcome(simple_jobs, grid_jobs, "ValueError")
    ELSE IF JobIdExists(request.job_id)
    THEN Outcome(simple_jobs, grid_jobs, "IS_DUPLICATE")
    ELSE IF PriorityInvalid(request.priority)
    THEN Outcome(simple_jobs, grid_jobs, "ValueError")
    ELSE IF request.job_spec = "py_command" \/ request.job_spec = "py_function"
    THEN Outcome(DictSet(simple_jobs, request.job_id,
                         _SimpleJob(request, "RUN_REQUESTED")),
                 grid_jobs, "ADDED")
    ELSE IF request.job_spec = "py_grid"
    THEN LET added == _add_tasks_to_grid_job(
                          _GridJob(request, <<>>, <<>>, FALSE, 0), request.tasks)
         IN  IF added.raised
             THEN Outcome(simple_jobs, grid_jobs, "ValueError")
             ELSE Outcome(simple_jobs,
                          DictSet(grid_jobs, request.job_id,
                                  [added.grid_job EXCEPT
                                     !.job.tasks = <<>>,
                                     !.all_tasks_added = request.all_tasks_added]),
                          "ADDED")
    ELSE Outcome(simple_jobs, grid_jobs, "ValueError")

(***************************************************************************)
(* add_tasks_to_grid_job as a function of the request and the state.       *)
(***************************************************************************)
add_tasks_to_grid_job_result(job_id, tasks, all_tasks_added) ==
    IF job_id \notin DOMAIN grid_jobs
    THEN Outcome(simple_jobs, grid_jobs, "ValueError")
    ELSE LET added == _add_tasks_to_grid_job(grid_jobs[job_id], tasks)
         IN  IF added.raised
             THEN Outcome(simple_jobs,
                          [grid_jobs EXCEPT ![job_id] = added.grid_job],
                          "ValueError")
             ELSE Outcome(simple_jobs,
                          [grid_jobs EXCEPT ![job_id] =
                              [added.grid_job EXCEPT !.all_tasks_added =
                                  IF all_tasks_added THEN TRUE ELSE @]],
                          "OK")

(***************************************************************************)
(* update_job_states: the loop over request.job_states, each a record      *)
(* [job_id, process_state].                                                *)
(***************************************************************************)
JobStateUpdates ==
    UNION {[1 .. n -> [job_id : ValidJobIds, process_state : ReportedStates]] :
              n \in 0 .. MaxBatch}

\* faulty variant of UpdateOneJobState: a job is never put back to
\* RUN_REQUESTED
UpdateOneJobStateNoRegress(sj, job_state) ==
    IF job_state.job_id \in DOMAIN sj /\ job_state.process_state # "RUN_REQUESTED"
    THEN [sj EXCEPT ![job_state.job_id].state = job_state.process_state]
    ELSE sj

\* one iteration: only an entry for a simple job changes anything
UpdateOneJobState(sj, job_state) ==
    IF job_state.job_id \in DOMAIN sj
    THEN [sj EXCEPT ![job_state.job_id].state = job_state.process_state]
    ELSE sj

RECURSIVE update_job_states_result(_, _)
update_job_states_result(sj, job_states) ==
    IF job_states = <<>>
    THEN sj
    ELSE update_job_states_result(UpdateOneJobState(sj, Head(job_states)),
                                  Tail(job_states))

(***************************************************************************)
(* get_next_job.  A candidate is <<kind, job_id>>.                         *)
(***************************************************************************)
\* faulty variant of GridJobAvailable: >= for >
GridJobAvailableOrEqual(job) ==
    Len(job.unassigned_tasks) >= job.num_current_grid_workers

\* len(job.unassigned_tasks) > job.num_current_grid_workers
GridJobAvailable(job) == Len(job.unassigned_tasks) > job.num_current_grid_workers

\* job.state.state == ProcessState.ProcessStateEnum.RUN_REQUESTED
SimpleJobAvailable(job) == job.state = "RUN_REQUESTED"

available_grid_jobs(gj) ==
    {<<"grid", id>> : id \in {k \in DOMAIN gj : GridJobAvailable(gj[k])}}

available_simple_jobs(sj) ==
    {<<"simple", id>> : id \in {k \in DOMAIN sj : SimpleJobAvailable(sj[k])}}

available_jobs(sj, gj) == available_grid_jobs(gj) \cup available_simple_jobs(sj)

\* the retained Job message of a candidate
JobOf(sj, gj, c) == IF c[1] = "grid" THEN gj[c[2]].job ELSE sj[c[2]].job

\* faulty variant of Choosable: a candidate of weight 1 is never drawn
ChoosableAboveOne(sj, gj) ==
    {c \in available_jobs(sj, gj) : JobOf(sj, gj, c).priority > 1}

\* random.choices(available_jobs, weights)[0] draws a candidate of positive
\* weight
Choosable(sj, gj) == {c \in available_jobs(sj, gj) : JobOf(sj, gj, c).priority > 0}

\* faulty variant of AttachWorker: the worker also takes the first task
AttachWorkerAndPop(job) ==
    [job EXCEPT !.num_current_grid_workers = @ + 1,
                !.unassigned_tasks = Tail(@)]

\* job.num_current_grid_workers += 1
AttachWorker(job) ==
    [job EXCEPT !.num_current_grid_workers = @ + 1]

\* faulty variant of AssignSimpleJob: the state is left as it is
AssignSimpleJobNoop(job) == job

\* job.state = ProcessState(state=ProcessState.ProcessStateEnum.ASSIGNED)
AssignSimpleJob(job) == [job EXCEPT !.state = "ASSIGNED"]

\* the branch len(available_jobs) > 0 with candidate c drawn
SelectJob(sj, gj, c) ==
    IF c[1] = "grid"
    THEN [simple_jobs |-> sj,
          grid_jobs |-> [gj EXCEPT ![c[2]] = AttachWorker(@)],
          job |-> gj[c[2]].job]
    ELSE [simple_jobs |-> [sj EXCEPT ![c[2]] = AssignSimpleJob(@)],
          grid_jobs |-> gj,
          job |-> sj[c[2]].job]

\* the outcomes of get_next_job in the state (sj, gj): the two maps as the
\* handler leaves them and the Job it returns
get_next_job_results(sj, gj) ==
    IF available_jobs(sj, gj) # {}
    THEN {SelectJob(sj, gj, c) : c \in Choosable(sj, gj)}
    ELSE {[simple_jobs |-> sj, grid_jobs |-> gj, job |-> EmptyJob]}

(***************************************************************************)
(* update_grid_task_state_and_get_next as a function of the request and    *)
(* the state: the grid-job map as the handler leaves it and the task_id of *)
(* the returned GridTask.                                                  *)
(***************************************************************************)
\* ids of the task_id field of an update request: -1 is "no update", -2 a
\* negative id that no job holds
UpdateTaskIds == (-2) .. MaxTaskId

\* faulty variant of PopLeft: pop() takes the newest task
PopRight(unassigned_tasks) ==
    [chosen_task |-> unassigned_tasks[Len(unassigned_tasks)],
     rest |-> SubSeq(unassigned_tasks, 1, Len(unassigned_tasks) - 1)]

\* faulty variant of PopLeft: the first task is read and left in the deque
PeekLeft(unassigned_tasks) ==
    [chosen_task |-> Head(unassigned_tasks), rest |-> unassigned_tasks]

\* chosen_task = grid_job.unassigned_tasks.popleft()
PopLeft(unassigned_tasks) ==
    [chosen_task |-> Head(unassigned_tasks), rest |-> Tail(unassigned_tasks)]

\* faulty variant of DetachWorker: the decrement is not clamped
DetachWorkerUnclamped(num_current_grid_workers) == num_current_grid_workers - 1

\* max(0, grid_job.num_current_grid_workers - 1)
DetachWorker(num_current_grid_workers) ==
    IF num_current_grid_workers - 1 > 0 THEN num_current_grid_workers - 1 ELSE 0

\* faulty variant of TaskUnknown: only negative ids are taken as unknown
TaskUnknownNegativeOnly(grid_job, task_id) == task_id < 0

\* request.task_id not in grid_job.all_tasks
TaskUnknown(grid_job, task_id) == ~TaskExists(grid_job.all_tasks, task_id)

\* the part of the handler after the task state update
AssignNextTask(gj, job_id) ==
    IF Len(gj[job_id].unassigned_tasks) > 0
    THEN LET popped == PopLeft(gj[job_id].unassigned_tasks)
         IN  [grid_jobs |-> [gj EXCEPT ![job_id].unassigned_tasks = popped.rest],
              task_id |-> popped.chosen_task]
    ELSE [grid_jobs |-> [gj EXCEPT ![job_id].num_current_grid_workers =
                                       DetachWorker(@)],
          task_id |-> -1]

update_grid_task_state_and_get_next_result(gj, job_id, task_id, process_state) ==
    IF job_id \notin DOMAIN gj
    THEN [grid_jobs |-> gj, task_id |-> -1]
    ELSE IF task_id # -1
    THEN IF TaskUnknown(gj[job_id], task_id)
         THEN [grid_jobs |-> gj, task_id |-> -1]
         ELSE AssignNextTask(
                  [gj EXCEPT ![job_id].all_tasks =
                       SetTaskState(@, task_id, process_state)],
                  job_id)
    ELSE AssignNextTask(gj, job_id)

(***************************************************************************)
(* get_simple_job_states and get_grid_task_states as functions of the      *)
(* request and the state: the response, or the ValueError.                 *)
(***************************************************************************)
\* job id lists of a JobStatesRequest: no id, one id, two ids
JobIdLists == UNION {[1 .. n -> ValidJobIds] : n \in 0 .. 2}

\* task_ids_to_ignore of a GridTaskStatesRequest
IgnoreSets == SUBSET (0 .. MaxTaskId)

\* faulty variant of StateOrUnknown: an id that is no simple job is reported
\* as RUN_REQUESTED
StateOrRunRequested(sj, job_id) ==
    IF job_id \in DOMAIN sj THEN sj[job_id].state ELSE "RUN_REQUESTED"

\* the loop body of get_simple_job_states: the state appended for job_id
StateOrUnknown(sj, job_id) ==
    IF job_id \in DOMAIN sj THEN sj[job_id].state ELSE "UNKNOWN"

RECURSIVE get_simple_job_states_result(_, _)
get_simple_job_states_result(sj, job_ids) ==
    IF job_ids = <<>>
    THEN <<>>
    ELSE <<StateOrUnknown(sj, Head(job_ids))>>
            \o get_simple_job_states_result(sj, Tail(job_ids))

\* GridTaskState(task_id=task.task_id, process_state=task.state)
GridTaskState(task) == [task_id |-> task.task_id, process_state |-> task.state]

\* faulty variant of TaskIgnored: task_ids_to_ignore is not looked at
TaskNeverIgnored(task, task_ids_to_ignore) == FALSE

\* task.task_id in task_ids_to_ignore
TaskIgnored(task, task_ids_to_ignore) == task.task_id \in task_ids_to_ignore

\* the list comprehension over job.all_tasks.values()
RECURSIVE TaskStatesOf(_, _)
TaskStatesOf(all_tasks, task_ids_to_ignore) ==
    IF all_tasks = <<>>
    THEN <<>>
    ELSE (IF TaskIgnored(Head(all_tasks), task_ids_to_ignore)
          THEN <<>>
          ELSE <<GridTaskState(Head(all_tasks))>>)
            \o TaskStatesOf(Tail(all_tasks), task_ids_to_ignore)

get_grid_task_states_result(gj, job_id, task_ids_to_ignore) ==
    IF job_id \notin DOMAIN gj
    THEN [status |-> "ValueError", task_states |-> <<>>]
    ELSE [status |-> "OK",
          task_states |-> TaskStatesOf(gj[job_id].all_tasks, task_ids_to_ignore)]

(***************************************************************************)
(* The meadowdb reader (src/src/meadowdb/reader.py).                       *)
(*  - a row is a function from column names to values; a parquet file and  *)
(*    a DataFrame are the sequence of their rows;                          *)
(*  - a DataFileEntry holds the rows of its file in place of the filename; *)
(*  - the where_clause is the SQL expression that the rendered text        *)
(*    denotes, and SqlHolds is its evaluation on a row by the engine;      *)
(*  - TableSchema.deduplication_keys None is the empty sequence;           *)
(*  - the reference of a bool column to the MdbTable it was built from is  *)
(*    the _version_number of that table, the one attribute read through it;*)
(*  - None is NoneValue.                                                   *)
(***************************************************************************)
NoneValue == [type |-> "None"]

\* the columns of the table's files
AllColumns == {"k", "v"}

\* the rows that a write file may hold
FileRows == {[k |-> 1, v |-> 10], [k |-> 1, v |-> 20], [k |-> 2, v |-> 10]}

\* the write files: one row, two rows
WriteFiles == UNION {[1 .. n -> FileRows] : n \in 1 .. 2}

\* the delete files: one row over the column k, over the column v, over both
DeleteFiles == {<<[k |-> 1]>>, <<[k |-> 2]>>, <<[v |-> 10]>>,
                <<[k |-> 1, v |-> 10]>>}

\* the columns and the rows of the file stand for its data_filename; a
\* file without rows is known by DataFileEntry to have no columns
DataFileEntry(data_file_type, rows) ==
    [data_file_type |-> data_file_type, rows |-> rows,
     columns |-> IF rows = <<>> THEN {} ELSE DOMAIN rows[1]]

\* the delete file that has the column k and no rows
EmptyDeleteFile ==
    [DataFileEntry("delete", <<>>) EXCEPT !.columns = {"k"}]

\* the entries of a data list; "compact" is a data_file_type that to_pd
\* does not know
DataFileEntries ==
    {DataFileEntry("write", f) : f \in WriteFiles}
    \cup {DataFileEntry("delete", f) : f \in DeleteFiles}
    \cup {EmptyDeleteFile}
    \cup {DataFileEntry("delete_all", <<>>), DataFileEntry("compact", <<>>)}

\* the data lists of four entries: two writes, a delete_all, a write
TerminatedDataLists ==
    {<<DataFileEntry("write", <<w[1]>>), DataFileEntry("write", <<w[2]>>),
       DataFileEntry("delete_all", <<>>), DataFileEntry("write", <<w[3]>>)>> :
        w \in FileRows \X FileRows \X FileRows}

\* the data lists: up to three entries, oldest first, and the lists of four
DataLists ==
    UNION {[1 .. n -> DataFileEntries] : n \in 0 .. 3} \cup TerminatedDataLists

\* TableSchema.deduplication_keys: None, or the column k
DeduplicationKeys == {<<>>, <<"k">>}

TableSchema(deduplication_keys) == [deduplication_keys |-> deduplication_keys]

\* the _version_number of tables
VersionNumbers == {5, 6}

\* column `op` arg, e.g. t['k'] == 1
MdbComputedBoolColumnOpArg(table_version_number, column_name, op, arg) ==
    [type |-> "OpArg", mdb_table |-> table_version_number,
     column_name |-> column_name,
     op |-> op, arg |-> arg]

\* column `op` column, e.g. (t['k'] == 1) & (t['v'] == 10)
MdbComputedBoolColumnOpColumn(series_a, series_b, op) ==
    [type |-> "OpColumn", series_a |-> series_a, series_b |-> series_b, op |-> op]

_SelectColumnsOp(columns_to_select) ==
    [type |-> "_SelectColumnsOp", columns_to_select |-> columns_to_select]

_SelectRowsOp(filter_column) ==
    [type |-> "_SelectRowsOp", filter_column |-> filter_column]

\* the items of t[item] for a table t of version 6: a list of column names
\* or a bool column, built from t or from a table of version 5
Items ==
    {_SelectColumnsOp(c) : c \in {{"v"}, {"k", "v"}}}
    \cup {_SelectRowsOp(MdbComputedBoolColumnOpArg(6, "v", "=", 10)),
          _SelectRowsOp(MdbComputedBoolColumnOpArg(6, "k", "!=", 1)),
          _SelectRowsOp(MdbComputedBoolColumnOpArg(5, "k", "!=", 1)),
          _SelectRowsOp(MdbComputedBoolColumnOpColumn(
              MdbComputedBoolColumnOpArg(6, "v", "=", 10),
              MdbComputedBoolColumnOpArg(5, "k", "!=", 1), "OR"))}

MdbTable(version_number, table_schema, data_list, ops) ==
    [version_number |-> version_number, table_schema |-> table_schema,
     data_list |-> data_list, ops |-> ops]

\* no DataFrame yet
NotMaterialized ==
    [status |-> "none", rows |-> <<>>, columns_not_previously_selected |-> {}]

\* the rendered text of a bool column as the SQL expression it denotes, or
\* the raise of a leaf that was built from a table of another version
RECURSIVE _construct_where_clause(_, _)
_construct_where_clause(filter_column, table) ==
    IF filter_column.type = "OpArg"
    THEN IF filter_column.mdb_table # table.version_number
         THEN [sql |-> "raise"]
         ELSE [sql |-> "comparison", column |-> filter_column.column_name,
               operator |-> filter_column.op, literal |-> filter_column.arg]
    ELSE LET a == _construct_where_clause(filter_column.series_a, table)
             b == _construct_where_clause(filter_column.series_b, table)
         IN  IF a.sql = "raise" \/ b.sql = "raise"
             THEN [sql |-> "raise"]
             ELSE [sql |-> "binary", operator |-> filter_column.op,
                   left |-> a, right |-> b]

\* the engine's value of: value operator literal
Compares(value, operator, literal) ==
    CASE operator = "=" -> value = literal
      [] operator = "!=" -> value # literal
      [] operator = "<" -> value < literal
      [] operator = "<=" -> value <= literal
      [] operator = ">" -> value > literal
      [] operator = ">=" -> value >= literal
      [] operator = "BETWEEN" -> literal[1] <= value /\ value <= literal[2]
      [] operator = "NOT BETWEEN" -> ~(literal[1] <= value /\ value <= literal[2])
      [] operator = "IN" -> value \in literal
      [] operator = "NOT IN" -> value \notin literal

\* the engine's value of a where_clause on a row
RECURSIVE SqlHolds(_, _)
SqlHolds(where_clause, row) ==
    IF where_clause.sql = "TRUE"
    THEN TRUE
    ELSE IF where_clause.sql = "comparison"
    THEN Compares(row[where_clause.column], where_clause.operator,
                  where_clause.literal)
    ELSE IF where_clause.operator = "AND"
         THEN SqlHolds(where_clause.left, row) /\ SqlHolds(where_clause.right, row)
         ELSE SqlHolds(where_clause.left, row) \/ SqlHolds(where_clause.right, row)

\* [op.columns_to_select for op in self._ops if isinstance(op, _SelectColumnsOp)]
column_args(ops) ==
    LET selected == SelectSeq(ops, LAMBDA op : op.type = "_SelectColumnsOp")
    IN  [i \in 1 .. Len(selected) |-> selected[i].columns_to_select]

\* [op.filter_column for op in self._ops if isinstance(op, _SelectRowsOp)]
row_args(ops) ==
    LET selected == SelectSeq(ops, LAMBDA op : op.type = "_SelectRowsOp")
    IN  [i \in 1 .. Len(selected) |-> selected[i].filter_column]

\* [a for a in next_columns if a not in curr_columns]
ColumnsNotPreviouslySelected(next_columns, curr_columns) ==
    next_columns \ curr_columns

\* the loop over column_args[1:]: the columns selected at last, or the raise
\* and the columns that its message names
RECURSIVE SelectedColumns(_, _)
SelectedColumns(curr_columns, next_args) ==
    IF next_args = <<>>
    THEN [raised |-> FALSE, columns |-> curr_columns,
          columns_not_previously_selected |-> {}]
    ELSE IF ColumnsNotPreviouslySelected(Head(next_args), curr_columns) # {}
    THEN [raised |-> TRUE, columns |-> curr_columns,
          columns_not_previously_selected |->
              ColumnsNotPreviouslySelected(Head(next_args), curr_columns)]
    ELSE SelectedColumns(Head(next_args), Tail(next_args))

\* where_clause = row_args[0]._construct_where_clause(self)
FilterCompiled(filter_columns) == Head(filter_columns)

\* the select_clause as the set of columns it names, and the where_clause;
\* raised: the ValueError of the select_clause
_construct_sql(table) ==
    LET selected == IF column_args(table.ops) = <<>>
                    THEN [raised |-> FALSE, columns |-> AllColumns,
                          columns_not_previously_selected |-> {}]
                    ELSE SelectedColumns(Head(column_args(table.ops)),
                                         Tail(column_args(table.ops)))
    IN  [raised |-> selected.raised,
         columns_not_previously_selected |->
             selected.columns_not_previously_selected,
         select_clause |-> selected.columns,
         where_clause |-> IF row_args(table.ops) = <<>>
                          THEN [sql |-> "TRUE"]
                          ELSE _construct_where_clause(
                                   FilterCompiled(row_args(table.ops)), table)]

\* some row of the relation equals row on every column of columns
Joins(row, relation, columns) ==
    \E i \in 1 .. Len(relation) : \A c \in columns : row[c] = relation[i][c]

\* faulty variant of Deleted: no row is deleted
DeletedNever(row, deletes) == FALSE

\* the DataFrame of the given columns and rows; a row that lacks a column
\* of the frame holds NaN there
DataFrame(columns, rows) == [columns |-> columns, rows |-> rows]

\* pd.concat([a, b]): the rows of both, on the columns of either
Concat(a, b) == DataFrame(a.columns \union b.columns, a.rows \o b.rows)

\* LEFT JOIN ds ON ... WHERE ds.indicator IS NULL, when len(deletes) > 0:
\* the join is on every column of deletes, and NaN equals no value
Deleted(row, deletes) ==
    /\ Len(deletes.rows) > 0
    /\ \E i \in 1 .. Len(deletes.rows) :
          \A c \in deletes.columns :
              c \in DOMAIN deletes.rows[i] /\ row[c] = deletes.rows[i][c]

\* faulty variant of Superseded: no row is superseded
SupersededNever(row, deduplication_keys_seen, deduplication_keys) == FALSE

\* LEFT JOIN pks ON ... WHERE pks.indicator IS NULL, when
\* len(deduplication_keys_seen) > 0
Superseded(row, deduplication_keys_seen, deduplication_keys) ==
    /\ Len(deduplication_keys_seen) > 0
    /\ Joins(row, deduplication_keys_seen, Range(deduplication_keys))

\* the columns of a row that the select_clause or df[...] names
Project(row, columns) == [c \in columns |-> row[c]]

\* the DataFrame that the SQL query of a write partition fetches
PartitionResult(rows, sql, deletes, deduplication_keys_seen, deduplication_keys) ==
    LET kept == SelectSeq(rows, LAMBDA row :
                    /\ ~Deleted(row, deletes)
                    /\ ~Superseded(row, deduplication_keys_seen, deduplication_keys)
                    /\ SqlHolds(sql.where_clause, row))
    IN  [i \in 1 .. Len(kept) |-> Project(kept[i], sql.select_clause)]

RECURSIVE ReadPartitions(_, _, _, _)

\* faulty variant of StopIterating: delete_all is passed over
KeepIterating(table, sql, i, read) == ReadPartitions(table, sql, i - 1, read)

\* faulty variant of StopIterating: delete_all is an unknown type
RaiseAtDeleteAll(table, sql, i, read) == [read EXCEPT !.status = "ValueError"]

\* elif data_file.data_file_type == "delete_all": break
StopIterating(table, sql, i, read) == read

\* the loop of to_pd from the entry i of the data list down to the oldest
\* entry; read is what the newer entries left: partition_results,
\* deduplication_keys_seen, deletes and the status ("OK" or the exception)
ReadPartitions(table, sql, i, read) ==
    IF i = 0 \/ read.status # "OK"
    THEN read
    ELSE LET data_file == table.data_list[i]
             keys == table.table_schema.deduplication_keys
         IN  IF data_file.data_file_type = "write"
             THEN LET df == PartitionResult(data_file.rows, sql, read.deletes,
                                            read.deduplication_keys_seen, keys)
                  IN  IF keys # <<>> /\ ~(Range(keys) \subseteq sql.select_clause)
                      THEN [read EXCEPT !.status = "KeyError"]
                      ELSE ReadPartitions(table, sql, i - 1,
                              [read EXCEPT
                                 !.partition_results = Append(@, df),
                                 !.deduplication_keys_seen =
                                    IF keys # <<>>
                                    THEN @ \o [j \in 1 .. Len(df) |->
                                                  Project(df[j], Range(keys))]
                                    ELSE @])
             ELSE IF data_file.data_file_type = "delete"
             THEN IF /\ Len(read.deletes.rows) > 0
                     /\ read.deletes.columns # data_file.columns
                  THEN [read EXCEPT !.status = "NotImplementedError"]
                  ELSE ReadPartitions(table, sql, i - 1,
                          [read EXCEPT !.deletes =
                              Concat(@, DataFrame(data_file.columns,
                                                  data_file.rows))])
             ELSE IF data_file.data_file_type = "delete_all"
             THEN StopIterating(table, sql, i, read)
             ELSE [read EXCEPT !.status = "ValueError"]

\* partition_results.reverse(); pd.concat(partition_results)
RECURSIVE ConcatReversed(_)
ConcatReversed(partition_results) ==
    IF partition_results = <<>>
    THEN <<>>
    ELSE ConcatReversed(Tail(partition_results)) \o Head(partition_results)

\* what to_pd leaves: the exception or "OK", the rows of the DataFrame and
\* the columns that the message of the ValueError of the select_clause names
Materialized(status, rows, columns_not_previously_selected) ==
    [status |-> status, rows |-> rows,
     columns_not_previously_selected |-> columns_not_previously_selected]

\* to_pd as a function of the table
to_pd_result(table) ==
    LET sql == _construct_sql(table)
        read == ReadPartitions(table, sql, Len(table.data_list),
                    [partition_results |-> <<>>, deduplication_keys_seen |-> <<>>,
                     deletes |-> DataFrame({}, <<>>), status |-> "OK"])
    IN  IF sql.raised
        THEN Materialized("ValueError", <<>>, sql.columns_not_previously_selected)
        ELSE IF sql.where_clause.sql = "raise"
        THEN Materialized("ValueError", <<>>, {})
        ELSE IF read.status # "OK"
        THEN Materialized(read.status, <<>>, {})
        ELSE Materialized("OK", ConcatReversed(read.partition_results), {})

(***************************************************************************)
(* Bool columns: the comparisons of MdbColumn and the operators ~, & and | *)
(* of MdbComputedBoolColumnOpArg and MdbComputedBoolColumnOpColumn.        *)
(***************************************************************************)
\* the bool columns that the methods of the column t['k'] of a table of
\* version 6 return: ==, !=, >, <, >=, <=, between, isin
ColumnComparisons ==
    {MdbComputedBoolColumnOpArg(6, "k", op, 1) :
        op \in {"=", "!=", ">", "<", ">=", "<="}}
    \cup {MdbComputedBoolColumnOpArg(6, "k", "BETWEEN", <<1, 2>>),
          MdbComputedBoolColumnOpArg(6, "k", "IN", {1, 2})}

\* faulty variant of InverseOp: the comparison is mirrored, not negated
InverseOpMirrored(op) ==
    CASE op = "=" -> "!="
      [] op = "!=" -> "="
      [] op = ">" -> "<"
      [] op = "<=" -> ">="
      [] op = "<" -> ">"
      [] op = ">=" -> "<="
      [] op = "BETWEEN" -> "NOT BETWEEN"
      [] op = "NOT BETWEEN" -> "BETWEEN"
      [] op = "IN" -> "NOT IN"
      [] op = "NOT IN" -> "IN"
      [] OTHER -> "ValueError"

\* new_op of MdbComputedBoolColumnOpArg.__invert__
InverseOp(op) ==
    CASE op = "=" -> "!="
      [] op = "!=" -> "="
      [] op = ">" -> "<="
      [] op = "<=" -> ">"
      [] op = "<" -> ">="
      [] op = ">=" -> "<"
      [] op = "BETWEEN" -> "NOT BETWEEN"
      [] op = "NOT BETWEEN" -> "BETWEEN"
      [] op = "IN" -> "NOT IN"
      [] op = "NOT IN" -> "IN"
      [] OTHER -> "ValueError"

\* ~column
RECURSIVE __invert__(_)
__invert__(column) ==
    IF column.type = "OpArg"
    THEN MdbComputedBoolColumnOpArg(column.mdb_table, column.column_name,
                                    InverseOp(column.op), column.arg)
    ELSE IF column.op = "AND"
    THEN MdbComputedBoolColumnOpColumn(__invert__(column.series_a),
                                       __invert__(column.series_b), "OR")
    ELSE MdbComputedBoolColumnOpColumn(__invert__(column.series_a),
                                       __invert__(column.series_b), "AND")

\* column & other
__and__(column, other) == MdbComputedBoolColumnOpColumn(column, other, "AND")

\* column | other
__or__(column, other) == MdbComputedBoolColumnOpColumn(column, other, "OR")

\* the number of leaves of a bool column
RECURSIVE Leaves(_)
Leaves(column) ==
    IF column.type = "OpArg"
    THEN 1
    ELSE Leaves(column.series_a) + Leaves(column.series_b)

(***************************************************************************)
(* read (src/src/meadowdb/reader.py): the table versions of one table in   *)
(* the userspaces, and the MdbTable that read makes of them.  A            *)
(* TableVersion holds, in place of its two filenames, what the files hold: *)
(* the pickled TableSchema and the pickled data list.                      *)
(***************************************************************************)
\* meadowdb.connection.prod_userspace_name
prod_userspace_name == "prod"

\* the userspaces that read is called with
Userspaces == {prod_userspace_name, "dev"}

TableVersion(version_number, table_schema_filename, data_list_filename) ==
    [version_number |-> version_number,
     table_schema_filename |-> table_schema_filename,
     data_list_filename |-> data_list_filename]

\* the table versions of a userspace: either version number, no schema or
\* one of two schemas, one of two data lists
TableVersionsOfUserspace ==
    {TableVersion(n, schema, data_list) :
        n \in VersionNumbers,
        schema \in {NoneValue, TableSchema(<<"k">>), TableSchema(<<"v">>)},
        data_list \in {<<DataFileEntry("write", <<[k |-> 1, v |-> 10]>>)>>,
                       <<DataFileEntry("delete", <<[k |-> 1]>>),
                         DataFileEntry("write", <<[k |-> 2, v |-> 10]>>)>>}}

\* table_version_client.get_current_table_version(userspace, table_name,
\* max_version_number), where versions holds for every userspace the
\* newest version of the table up to max_version_number, or None
get_current_table_version(versions, userspace) == versions[userspace]

\* faulty variant of max: the second argument
SecondOf(a, b) == b

\* the builtin max of two numbers
max(a, b) == IF a >= b THEN a ELSE b

\* read as a function of the table versions: the ValueError, or the
\* MdbTable returned
read_result(versions, userspace) ==
    LET table_version == get_current_table_version(versions, userspace)
        prod_table_version ==
            get_current_table_version(versions, prod_userspace_name)
        DataListOf(version) ==
            IF version = NoneValue THEN <<>> ELSE version.data_list_filename
    IN  IF userspace = prod_userspace_name
        THEN IF table_version = NoneValue
             THEN [status |-> "ValueError", table |-> NoneValue]
             ELSE [status |-> "OK",
                   table |-> MdbTable(table_version.version_number,
                                IF table_version.table_schema_filename # NoneValue
                                THEN table_version.table_schema_filename
                                ELSE TableSchema(<<>>),
                                table_version.data_list_filename, <<>>)]
        ELSE IF table_version = NoneValue /\ prod_table_version = NoneValue
        THEN [status |-> "ValueError", table |-> NoneValue]
        ELSE LET table_schema_filename ==
                     IF /\ table_version # NoneValue
                        /\ table_version.table_schema_filename # NoneValue
                     THEN table_version.table_schema_filename
                     ELSE IF prod_table_version # NoneValue
                     THEN prod_table_version.table_schema_filename
                     ELSE NoneValue
                 after_prod == IF prod_table_version # NoneValue
                               THEN prod_table_version.version_number
                               ELSE -1
                 table_version_number ==
                     IF table_version # NoneValue
                     THEN max(after_prod, table_version.version_number)
                     ELSE after_prod
             IN  [status |-> "OK",
                  table |-> MdbTable(table_version_number,
                               IF table_schema_filename # NoneValue
                               THEN table_schema_filename
                               ELSE TableSchema(<<>>),
                               DataListOf(prod_table_version)
                                  \o DataListOf(table_version),
                               <<>>)]

(***************************************************************************)
(* MdbTable.__getitem__ on table objects.  A table object holds its        *)
(* _data_list and its _ops by reference: the reference is the position of  *)
(* the list object in lists, the list objects that exist.                  *)
(***************************************************************************)
\* t['b'], a column handle
MdbColumn(table_version_number, column_name) ==
    [type |-> "MdbColumn", mdb_table |-> table_version_number,
     column_name |-> column_name]

\* MdbColumn._interpret_as_bool
_interpret_as_bool(column) ==
    MdbComputedBoolColumnOpArg(column.mdb_table, column.column_name, "=", "TRUE")

\* a list of column names
ColumnNames(names) == [type |-> "names", names |-> names]

\* the items of t[item] that give a table: a list of column names, a bool
\* column, a column
BuilderItems ==
    {ColumnNames({"k"}),
     MdbComputedBoolColumnOpArg(6, "k", "=", "a"),
     MdbComputedBoolColumnOpColumn(MdbComputedBoolColumnOpArg(6, "k", "=", "a"),
                                   MdbComputedBoolColumnOpArg(6, "v", "!=", "a"),
                                   "AND"),
     MdbColumn(6, "b")}

\* the op that __getitem__ appends for the item
OpOfItem(item) ==
    IF item.type = "names"
    THEN _SelectColumnsOp(item.names)
    ELSE IF item.type = "MdbColumn"
    THEN _SelectRowsOp(_interpret_as_bool(item))
    ELSE _SelectRowsOp(item)

\* faulty variant of ListPlus: the list object itself, with the element
\* appended to it
ListAppend(list_objects, list, element) ==
    [lists |-> [list_objects EXCEPT ![list] = Append(@, element)],
     list |-> list]

\* list + [element]: a new list object; the list objects afterwards and the
\* reference of the new one
ListPlus(list_objects, list, element) ==
    [lists |-> Append(list_objects, Append(list_objects[list], element)),
     list |-> Len(list_objects) + 1]

(***************************************************************************)
(* MeadowRunJobRunner (src/src/meadowflow/meadowrun_job_runner.py) for one *)
(* run request of one job.  run and poll_jobs are coroutines on one event  *)
(* loop: each runs from its start to its await of the meadowrun server,    *)
(* and from the arrival of the response to its end.  The server answers    *)
(* the two kinds of request independently of each other, so the responses  *)
(* reach the event loop in either order.  The pid of a payload is left     *)
(* out.                                                                    *)
(***************************************************************************)
\* JobPayload(request_id, state)
JobPayload(request_id, state) == [request_id |-> request_id, state |-> state]

\* the run_request_id of the run request
RunRequestId == "r"

\* the server's ProcessState of the run request
ProcessState(state) == [state |-> state]

\* the states in which the process of a run request ends
ExitStates ==
    {"SUCCEEDED", "PYTHON_EXCEPTION", "NON_ZERO_RETURN_CODE", "CANCELLED"}

\* a coroutine of the job runner: where it stands ("idle", "requested": at
\* its await, the request on its way; "responded": the response arrived;
\* "done": returned; or the name of the exception it raised), the request
\* ids it sent, the states it received
Coroutine(pc, request_ids, states) ==
    [pc |-> pc, request_ids |-> request_ids, states |-> states]

\* self._event_log.last_event(topic_name, timestamp), timestamp being
\* curr_timestamp
last_event(events) == events[Len(events)]

\* faulty variant of NewPayloadState: a cancelled process counts as failed
NewPayloadStateCancelledFails(process_state) ==
    CASE process_state = "RUN_REQUESTED" -> "RUN_REQUESTED"
      [] process_state = "RUNNING" -> "RUNNING"
      [] process_state = "SUCCEEDED" -> "SUCCEEDED"
      [] process_state \in {"RUN_REQUEST_FAILED", "PYTHON_EXCEPTION",
                            "NON_ZERO_RETURN_CODE", "CANCELLED"} -> "FAILED"
      [] process_state \in {"UNKNOWN", "ERROR_GETTING_STATE"} ->
            "NotImplementedError"
      [] OTHER -> "ValueError"

\* the state of the new_payload that poll_jobs makes of a ProcessState, or
\* the exception it raises
NewPayloadState(process_state) ==
    CASE process_state = "RUN_REQUESTED" -> "RUN_REQUESTED"
      [] process_state = "RUNNING" -> "RUNNING"
      [] process_state = "SUCCEEDED" -> "SUCCEEDED"
      [] process_state \in {"RUN_REQUEST_FAILED", "PYTHON_EXCEPTION",
                            "NON_ZERO_RETURN_CODE"} -> "FAILED"
      [] process_state \in {"CANCELLED", "UNKNOWN", "ERROR_GETTING_STATE"} ->
            "NotImplementedError"
      [] OTHER -> "ValueError"

\* how _run_deployed_function ends on the state of the server's result:
\* "done" when it returns, or the exception it raises
RunOutcome(result_state) ==
    CASE result_state = "REQUEST_IS_DUPLICATE" -> "NotImplementedError"
      [] result_state = "RUNNING" -> "done"
      [] result_state = "RUN_REQUEST_FAILED" -> "NotImplementedError"
      [] OTHER -> "ValueError"

\* faulty variant of StatesToAppend: the RUNNING that was missed is not
\* made up for
StatesToAppendAsPolled(updated_last_state, new_state) ==
    IF updated_last_state = new_state
    THEN <<>>
    ELSE <<new_state>>

\* faulty variant of StatesToAppend: the RUNNING that was missed is
\* appended after the new state
StatesToAppendNewFirst(updated_last_state, new_state) ==
    IF updated_last_state = new_state
    THEN <<>>
    ELSE IF updated_last_state = "RUN_REQUESTED" /\ new_state # "RUNNING"
    THEN <<new_state, "RUNNING">>
    ELSE <<new_state>>

\* the states of the events that poll_jobs appends for one request
StatesToAppend(updated_last_state, new_state) ==
    IF updated_last_state = new_state
    THEN <<>>
    ELSE IF updated_last_state = "RUN_REQUESTED" /\ new_state # "RUNNING"
    THEN <<"RUNNING", new_state>>
    ELSE <<new_state>>

(***************************************************************************)
(* The nextrun client (src/src/nextrun/client.py): the request that        *)
(* _create_run_py_func_request makes of a deployed function.  The function *)
(* is to run under the interpreter of the deployment, whose version the    *)
(* deployed function does not carry.                                       *)
(***************************************************************************)
\* a >= b of two Python tuples of three integers
TupleAtLeast(a, b) ==
    \/ a[1] > b[1]
    \/ a[1] = b[1] /\ a[2] > b[2]
    \/ a[1] = b[1] /\ a[2] = b[2] /\ a[3] >= b[3]

\* the interpreter version that _create_run_py_func_request goes by
interpreter_version == <<3, 8, 0>>

\* the pickle protocol of an interpreter version, or NotImplementedError
PickleProtocol(version) ==
    IF TupleAtLeast(version, <<3, 8, 0>>)
    THEN [raises |-> FALSE, protocol |-> 5]
    ELSE IF TupleAtLeast(version, <<3, 4, 0>>)
    THEN [raises |-> FALSE, protocol |-> 4]
    ELSE IF TupleAtLeast(version, <<3, 0, 0>>)
    THEN [raises |-> FALSE, protocol |-> 3]
    ELSE [raises |-> TRUE, protocol |-> 0]

\* min(a, b)
min(a, b) == IF a <= b THEN a ELSE b

\* the versions of the interpreter of a deployment
RemoteInterpreters ==
    {<<2, 7, 18>>, <<3, 0, 0>>, <<3, 3, 7>>, <<3, 4, 0>>, <<3, 7, 9>>,
     <<3, 8, 0>>, <<3, 10, 1>>}

\* pickle.HIGHEST_PROTOCOL of the interpreter the client runs under
HighestProtocols == {3, 4, 5}

\* the types of deployed_function.deployment
Deployments == {"ServerAvailableFolder", "GitRepoCommit", "other"}

\* a call of _create_run_py_func_request and what is known of its outcome:
\* status "called", "returned" or the exception raised; protocol is the one
\* the function arguments were pickled with
ClientCall(request_id, deployment, remote_interpreter, highest_protocol, status, protocol) ==
    [request_id |-> request_id, deployment |-> deployment,
     remote_interpreter |-> remote_interpreter,
     highest_protocol |-> highest_protocol, status |-> status,
     protocol |-> protocol]

\* _create_run_py_func_request(request_id, deployed_function) of a call
_create_run_py_func_request(call) ==
    IF PickleProtocol(interpreter_version).raises
    THEN [call EXCEPT !.status = "NotImplementedError"]
    ELSE [call EXCEPT
             !.protocol = min(PickleProtocol(interpreter_version).protocol,
                              call.highest_protocol),
             !.status = IF call.deployment \in {"ServerAvailableFolder",
                                                "GitRepoCommit"}
                        THEN "returned"
                        ELSE "ValueError"]

(***************************************************************************)
(* The state machine.  last records the RPC that ran last.                 *)
(***************************************************************************)
Call(rpc, job_id, status, ret_task) ==
    [rpc |-> rpc, job_id |-> job_id, status |-> status, ret_task |-> ret_task]

\* the workers that have RPCs in flight at the same time
Workers == {"w1", "w2"}

\* a worker's call: pc is "idle" (nothing issued), "in_flight" (issued, the
\* handler has not started), "suspended" (the handler stands at an await) or
\* "done" (the handler returned); kind and job are the candidate that
\* get_next_job drew and returned, task the task_id that
\* update_grid_task_state_and_get_next read and returned
WorkerCall(pc, rpc, kind, job, task) ==
    [pc |-> pc, rpc |-> rpc, kind |-> kind, job |-> job, task |-> task]

IdleCall == WorkerCall("idle", "", "", "", -1)

\* MeadowGridCoordinatorHandler.__init__
\* the subsystems at rest: no coordinator state, no table read, no bool
\* column, no table version, no table object, no run request
NoGrid ==
    /\ simple_jobs = EmptyDict
    /\ grid_jobs = EmptyDict
    /\ dispatched = [id \in ValidJobIds |-> <<>>]
    /\ last = Call("init", "", "OK", -1)
    /\ calls = [w \in Workers |-> IdleCall]

NoReader ==
    /\ mdb_table = MdbTable(6, TableSchema(<<>>), <<>>, <<>>)
    /\ materialized = NotMaterialized

NoPredicate == bool_column = NoneValue

NoRegistry ==
    /\ table_versions = [userspace \in {} |-> NoneValue]
    /\ last_read = NoneValue

NoBuilder ==
    /\ tables = <<>>
    /\ lists = <<>>

NoRunner ==
    /\ event_log = <<>>
    /\ process = ProcessState("UNKNOWN")
    /\ run_call = Coroutine("idle", <<>>, <<>>)
    /\ poll_call = Coroutine("idle", <<>>, <<>>)

NoClient == client_call = NoneValue

Init ==
    /\ simple_jobs = EmptyDict
    /\ grid_jobs = EmptyDict
    /\ dispatched = [id \in ValidJobIds |-> <<>>]
    /\ last = Call("init", "", "OK", -1)
    /\ calls = [w \in Workers |-> IdleCall]
    /\ mdb_table = MdbTable(6, TableSchema(<<>>), <<>>, <<>>)
    /\ materialized = NotMaterialized
    /\ NoPredicate
    /\ NoRegistry
    /\ NoBuilder
    /\ NoRunner
    /\ NoClient

add_job(request) ==
    LET r == add_job_result(request)
    IN  /\ simple_jobs' = r.simple_jobs
        /\ grid_jobs' = r.grid_jobs
        /\ last' = Call("add_job", request.job_id, r.status, -1)
        /\ UNCHANGED <<dispatched, OutsideCoordinator>>

add_tasks_to_grid_job(job_id, tasks, all_tasks_added) ==
    LET r == add_tasks_to_grid_job_result(job_id, tasks, all_tasks_added)
    IN  /\ simple_jobs' = r.simple_jobs
        /\ grid_jobs' = r.grid_jobs
        /\ last' = Call("add_tasks_to_grid_job", job_id, r.status, -1)
        /\ UNCHANGED <<dispatched, OutsideCoordinator>>

update_job_states(job_states) ==
    /\ simple_jobs' = update_job_states_result(simple_jobs, job_states)
    /\ last' = Call("update_job_states", "", "OK", -1)
    /\ UNCHANGED <<grid_jobs, dispatched, OutsideCoordinator>>

get_next_job ==
    \E r \in get_next_job_results(simple_jobs, grid_jobs) :
        /\ simple_jobs' = r.simple_jobs
        /\ grid_jobs' = r.grid_jobs
        /\ last' = Call("get_next_job", r.job.job_id, "OK", -1)
        /\ UNCHANGED <<dispatched, OutsideCoordinator>>

update_grid_task_state_and_get_next(job_id, task_id, process_state) ==
    LET r == update_grid_task_state_and_get_next_result(
                 grid_jobs, job_id, task_id, process_state)
    IN  /\ grid_jobs' = r.grid_jobs
        /\ dispatched' = IF r.task_id >= 0
                         THEN [dispatched EXCEPT ![job_id] = Append(@, r.task_id)]
                         ELSE dispatched
        /\ last' = Call("update_grid_task_state_and_get_next", job_id, "OK", r.task_id)
        /\ UNCHANGED <<simple_jobs, OutsideCoordinator>>

Next ==
    \/ \E request \in AddJobRequests : add_job(request)
    \/ \E job_id \in ValidJobIds, tasks \in TaskLists, all_tasks_added \in BOOLEAN :
          add_tasks_to_grid_job(job_id, tasks, all_tasks_added)
    \/ \E job_states \in JobStateUpdates : update_job_states(job_states)
    \/ get_next_job
    \/ \E job_id \in ValidJobIds, task_id \in UpdateTaskIds,
          process_state \in ReportedStates :
          update_grid_task_state_and_get_next(job_id, task_id, process_state)

Spec == Init /\ [][Next]_vars

(***************************************************************************)
(* The coordinator with its two query RPCs.  last also records the request *)
(* and the response of a query.                                            *)
(***************************************************************************)
Query(rpc, job_id, status, request, response) ==
    [rpc |-> rpc, job_id |-> job_id, status |-> status, ret_task |-> -1,
     request |-> request, response |-> response]

get_simple_job_states(job_ids) ==
    /\ last' = Query("get_simple_job_states", "", "OK", job_ids,
                     get_simple_job_states_result(simple_jobs, job_ids))
    /\ UNCHANGED <<simple_jobs, grid_jobs, dispatched, OutsideCoordinator>>

get_grid_task_states(job_id, task_ids_to_ignore) ==
    LET r == get_grid_task_states_result(grid_jobs, job_id, task_ids_to_ignore)
    IN  /\ last' = Query("get_grid_task_states", job_id, r.status,
                         task_ids_to_ignore, r.task_states)
        /\ UNCHANGED <<simple_jobs, grid_jobs, dispatched, OutsideCoordinator>>

QueryNext ==
    \/ Next
    \/ \E job_ids \in JobIdLists : get_simple_job_states(job_ids)
    \/ \E job_id \in ValidJobIds, task_ids_to_ignore \in IgnoreSets :
          get_grid_task_states(job_id, task_ids_to_ignore)

QuerySpec == Init /\ [][QueryNext]_vars

(***************************************************************************)
(* The coordinator under a fair dispatcher: get_next_job is called again   *)
(* and again, and random.choices draws every candidate that is a candidate *)
(* again and again (every weight is positive: add_job admits no priority   *)
(* <= 0).                                                                  *)
(***************************************************************************)
\* get_next_job with random.choices drawing the candidate c
get_next_job_choosing(c) ==
    /\ c \in Choosable(simple_jobs, grid_jobs)
    /\ LET r == SelectJob(simple_jobs, grid_jobs, c)
       IN  /\ simple_jobs' = r.simple_jobs
           /\ grid_jobs' = r.grid_jobs
           /\ last' = Call("get_next_job", r.job.job_id, "OK", -1)
           /\ UNCHANGED <<dispatched, OutsideCoordinator>>

\* the priorities of the jobs that compete for the dispatcher
CompetingPriorities == {1, 2}

\* the AddJob requests of competing jobs: well-formed, with any of the
\* competing priorities; simple jobs under any id, grid jobs under any id but
\* SimpleJobId with any task list and flag
CompetingJobRequests ==
    {Job(r[1], "n", r[2], "py_command", <<>>, FALSE) :
        r \in ValidJobIds \X CompetingPriorities}
    \cup
    {Job(r[1], "n", r[2], "py_grid", r[3], r[4]) :
        r \in (ValidJobIds \ {SimpleJobId}) \X CompetingPriorities
                  \X TaskLists \X BOOLEAN}

FairNext ==
    \/ \E request \in CompetingJobRequests : add_job(request)
    \/ \E job_id \in ValidJobIds, tasks \in TaskLists, all_tasks_added \in BOOLEAN :
          add_tasks_to_grid_job(job_id, tasks, all_tasks_added)
    \/ \E job_states \in JobStateUpdates : update_job_states(job_states)
    \/ get_next_job
    \/ \E job_id \in ValidJobIds, task_id \in UpdateTaskIds,
          process_state \in ReportedStates :
          update_grid_task_state_and_get_next(job_id, task_id, process_state)

FairSpec ==
    /\ Init
    /\ [][FairNext]_vars
    /\ WF_vars(get_next_job)
    /\ \A kind \in {"simple", "grid"}, id \in ValidJobIds :
          SF_vars(get_next_job_choosing(<<kind, id>>))

(***************************************************************************)
(* The coordinator with calls in flight at the same time.  The server runs *)
(* every handler as a coroutine on one event loop: a handler that was      *)
(* started runs until it returns or reaches an await, where the loop may   *)
(* run another handler.  Workers issue get_next_job and                    *)
(* update_grid_task_state_and_get_next (with task_id -1) while other       *)
(* clients add jobs and tasks and report job states.                       *)
(***************************************************************************)
\* faulty variant of AwaitsIn: an await stands between the handler's reads
\* and its writes
AwaitsAfterRead(rpc) == {"await"}

\* the awaits in the body of the handler of rpc: there is none
AwaitsIn(rpc) == {}

\* the AddJob requests of the other clients: a simple job, a grid job with
\* any task list
ConcurrentJobRequests ==
    {Job(SimpleJobId, "n", 1, "py_command", <<>>, FALSE)}
    \cup
    {Job(r[1], "n", 1, "py_grid", r[2], FALSE) :
        r \in (ValidJobIds \ {SimpleJobId}) \X TaskLists}

issue_get_next_job(w) ==
    /\ calls[w].pc \in {"idle", "done"}
    /\ calls' = [calls EXCEPT ![w] =
                    WorkerCall("in_flight", "get_next_job", "", "", -1)]
    /\ UNCHANGED <<simple_jobs, grid_jobs, dispatched, last, OutsideGrid>>

issue_update_grid_task_state_and_get_next(w, job_id) ==
    /\ calls[w].pc \in {"idle", "done"}
    /\ calls' = [calls EXCEPT ![w] =
                    WorkerCall("in_flight", "update_grid_task_state_and_get_next",
                               "", job_id, -1)]
    /\ UNCHANGED <<simple_jobs, grid_jobs, dispatched, last, OutsideGrid>>

\* get_next_job returns to worker w with the candidate c drawn
return_next_job(w, c) ==
    LET r == SelectJob(simple_jobs, grid_jobs, c)
    IN  /\ simple_jobs' = r.simple_jobs
        /\ grid_jobs' = r.grid_jobs
        /\ last' = Call("get_next_job", r.job.job_id, "OK", -1)
        /\ calls' = [calls EXCEPT ![w] =
                        WorkerCall("done", "get_next_job", c[1], c[2], -1)]
        /\ UNCHANGED <<dispatched, OutsideGrid>>

\* the event loop runs the get_next_job handler of worker w: from its start
\* to its return or to its first await, or from that await to its return
run_get_next_job(w) ==
    /\ calls[w].rpc = "get_next_job"
    /\ IF calls[w].pc = "in_flight"
       THEN IF available_jobs(simple_jobs, grid_jobs) = {}
            THEN /\ calls' = [calls EXCEPT ![w] =
                                WorkerCall("done", "get_next_job", "", "", -1)]
                 /\ last' = Call("get_next_job", EmptyJob.job_id, "OK", -1)
                 /\ UNCHANGED <<simple_jobs, grid_jobs, dispatched,
                                OutsideGrid>>
            ELSE \E c \in Choosable(simple_jobs, grid_jobs) :
                    IF AwaitsIn("get_next_job") = {}
                    THEN return_next_job(w, c)
                    ELSE /\ calls' = [calls EXCEPT ![w] =
                                WorkerCall("suspended", "get_next_job", c[1], c[2], -1)]
                         /\ UNCHANGED <<simple_jobs, grid_jobs, dispatched, last, OutsideGrid>>
       ELSE /\ calls[w].pc = "suspended"
            /\ return_next_job(w, <<calls[w].kind, calls[w].job>>)

\* update_grid_task_state_and_get_next returns to worker w with the grid-job
\* map gj and the task task_id
return_next_task(w, gj, task_id) ==
    /\ grid_jobs' = gj
    /\ dispatched' = IF task_id >= 0
                     THEN [dispatched EXCEPT ![calls[w].job] = Append(@, task_id)]
                     ELSE dispatched
    /\ last' = Call("update_grid_task_state_and_get_next", calls[w].job, "OK", task_id)
    /\ calls' = [calls EXCEPT ![w].pc = "done", ![w].task = task_id]
    /\ UNCHANGED <<simple_jobs, OutsideGrid>>

\* the event loop runs the update_grid_task_state_and_get_next handler of
\* worker w; a handler that stood at an await returns the task it read
\* before the await and pops the queue as it is after it
run_update_grid_task_state_and_get_next(w) ==
    /\ calls[w].rpc = "update_grid_task_state_and_get_next"
    /\ LET job_id == calls[w].job
           r == update_grid_task_state_and_get_next_result(
                    grid_jobs, job_id, -1, "RUN_REQUESTED")
       IN  IF calls[w].pc = "in_flight"
           THEN IF AwaitsIn("update_grid_task_state_and_get_next") = {}
                THEN return_next_task(w, r.grid_jobs, r.task_id)
                ELSE /\ calls' = [calls EXCEPT ![w].pc = "suspended",
                                               ![w].task = r.task_id]
                     /\ UNCHANGED <<simple_jobs, grid_jobs, dispatched, last, OutsideGrid>>
           ELSE /\ calls[w].pc = "suspended"
                /\ return_next_task(w, r.grid_jobs, calls[w].task)

ConcurrentNext ==
    \/ \E request \in ConcurrentJobRequests : add_job(request)
    \/ \E job_states \in JobStateUpdates : update_job_states(job_states)
    \/ \E w \in Workers : issue_get_next_job(w)
    \/ \E w \in Workers, job_id \in ValidJobIds \ {SimpleJobId} :
          issue_update_grid_task_state_and_get_next(w, job_id)
    \/ \E w \in Workers : run_get_next_job(w)
    \/ \E w \in Workers : run_update_grid_task_state_and_get_next(w)

ConcurrentSpec == Init /\ [][ConcurrentNext]_vars

(***************************************************************************)
(* The reader: a resolved table, the query builder and to_pd.              *)
(***************************************************************************)
\* the longest list of query operations
MaxOps == 2

\* read() has returned an MdbTable with any data list and schema and no ops
ReaderInit ==
    /\ simple_jobs = EmptyDict
    /\ grid_jobs = EmptyDict
    /\ dispatched = [id \in ValidJobIds |-> <<>>]
    /\ last = Call("init", "", "OK", -1)
    /\ calls = [w \in Workers |-> IdleCall]
    /\ mdb_table \in {MdbTable(6, TableSchema(keys), data_list, <<>>) :
                         keys \in DeduplicationKeys, data_list \in DataLists}
    /\ materialized = NotMaterialized
    /\ NoPredicate
    /\ NoRegistry
    /\ NoBuilder
    /\ NoRunner
    /\ NoClient

\* MdbTable.__getitem__: t[item] is a table with one more op
getitem(item) ==
    /\ Len(mdb_table.ops) < MaxOps
    /\ mdb_table' = MdbTable(mdb_table.version_number, mdb_table.table_schema,
                             mdb_table.data_list, Append(mdb_table.ops, item))
    /\ materialized' = NotMaterialized
    /\ UNCHANGED OutsideReader

to_pd ==
    /\ materialized' = to_pd_result(mdb_table)
    /\ UNCHANGED <<mdb_table, OutsideReader>>

ReaderNext ==
    \/ \E item \in Items : getitem(item)
    \/ to_pd

ReaderSpec == ReaderInit /\ [][ReaderNext]_vars

(***************************************************************************)
(* Bool columns under construction: comparisons of a column, combined and  *)
(* negated.                                                                *)
(***************************************************************************)
\* the most leaves of a bool column
MaxLeaves == 3

\* the variables that no operator of a bool column touches
OutsidePredicate ==
    <<GridVars, ReaderVars, RegistryVars, BuilderVars, RunnerVars, ClientVars>>

PredicateInit ==
    /\ NoGrid
    /\ NoReader
    /\ bool_column \in ColumnComparisons
    /\ NoRegistry
    /\ NoBuilder
    /\ NoRunner
    /\ NoClient

invert ==
    /\ bool_column' = __invert__(bool_column)
    /\ UNCHANGED OutsidePredicate

and_with(other) ==
    /\ Leaves(bool_column) < MaxLeaves
    /\ bool_column' = __and__(bool_column, other)
    /\ UNCHANGED OutsidePredicate

or_with(other) ==
    /\ Leaves(bool_column) < MaxLeaves
    /\ bool_column' = __or__(bool_column, other)
    /\ UNCHANGED OutsidePredicate

PredicateNext ==
    \/ invert
    \/ \E other \in ColumnComparisons : and_with(other)
    \/ \E other \in ColumnComparisons : or_with(other)

PredicateSpec == PredicateInit /\ [][PredicateNext]_vars

(***************************************************************************)
(* read: the table has any versions in the two userspaces.                 *)
(***************************************************************************)
\* the variables that read does not touch
OutsideRegistry == <<GridVars, PredicateVars, BuilderVars, RunnerVars, ClientVars>>

\* a call of read: its userspace and "OK" or the exception
ReadCall(userspace, status) == [userspace |-> userspace, status |-> status]

RegistryInit ==
    /\ NoGrid
    /\ NoReader
    /\ NoPredicate
    /\ table_versions \in [Userspaces -> TableVersionsOfUserspace \cup {NoneValue}]
    /\ last_read = NoneValue
    /\ NoBuilder
    /\ NoRunner
    /\ NoClient

read(userspace) ==
    LET r == read_result(table_versions, userspace)
    IN  /\ last_read' = ReadCall(userspace, r.status)
        /\ mdb_table' = IF r.status = "OK" THEN r.table ELSE mdb_table
        /\ UNCHANGED <<table_versions, materialized, OutsideRegistry>>

RegistryNext == \E userspace \in Userspaces : read(userspace)

RegistrySpec == RegistryInit /\ [][RegistryNext]_vars

(***************************************************************************)
(* The query builder: tables derived from a table that read returned.      *)
(***************************************************************************)
\* the most table objects
MaxTables == 4

\* the variables that the query builder does not touch
OutsideBuilder ==
    <<GridVars, ReaderVars, PredicateVars, RegistryVars, RunnerVars, ClientVars>>

\* read has returned a table: its data list is the first list object, its
\* ops, the empty list, the second
BuilderInit ==
    /\ NoGrid
    /\ NoReader
    /\ NoPredicate
    /\ NoRegistry
    /\ \E data_list \in {<<>>, <<DataFileEntry("write", <<[k |-> 1, v |-> 10]>>)>>},
          keys \in DeduplicationKeys :
          /\ lists = <<data_list, <<>>>>
          /\ tables = <<MdbTable(6, TableSchema(keys), 1, 2)>>
    /\ NoRunner
    /\ NoClient

\* tables[t][item]
getitem_of(t, item) ==
    /\ t <= Len(tables)
    /\ Len(tables) < MaxTables
    /\ LET self == tables[t]
           ops == ListPlus(lists, self.ops, OpOfItem(item))
       IN  /\ lists' = ops.lists
           /\ tables' = Append(tables,
                            MdbTable(self.version_number, self.table_schema,
                                     self.data_list, ops.list))
    /\ UNCHANGED OutsideBuilder

BuilderNext ==
    \E t \in 1 .. MaxTables, item \in BuilderItems : getitem_of(t, item)

BuilderSpec == BuilderInit /\ [][BuilderNext]_vars

(***************************************************************************)
(* The job runner: one run request, the meadowrun server, the scheduler    *)
(* that polls.                                                             *)
(***************************************************************************)
\* the variables that the job runner and the meadowrun server do not touch
OutsideRunner ==
    <<GridVars, ReaderVars, PredicateVars, RegistryVars, BuilderVars,
      ClientVars>>

RunnerInit ==
    /\ NoGrid
    /\ NoReader
    /\ NoPredicate
    /\ NoRegistry
    /\ NoBuilder
    /\ NoRunner
    /\ NoClient

\* run is called at most MaxRuns times with the run request id
MaxRuns == 2

\* the calls of run so far: each recorded RUN_REQUESTED
Runs(events) ==
    Cardinality({i \in 1 .. Len(events) : events[i].state = "RUN_REQUESTED"})

\* _run_deployed_function up to its await: RUN_REQUESTED is recorded, the
\* request is sent
run ==
    /\ run_call.pc \notin {"requested", "responded"}
    /\ Runs(event_log) < MaxRuns
    /\ event_log' = Append(event_log, JobPayload(RunRequestId, "RUN_REQUESTED"))
    /\ run_call' = Coroutine("requested", <<RunRequestId>>, <<>>)
    /\ UNCHANGED <<process, poll_call, OutsideRunner>>

\* the server handles run_py_func: it starts the process, or fails to
server_run_py_func(state) ==
    /\ run_call.pc = "requested"
    /\ process' = ProcessState(IF process.state = "UNKNOWN"
                               THEN state
                               ELSE process.state)
    /\ run_call' = Coroutine("responded", run_call.request_ids,
                             <<IF process.state = "UNKNOWN"
                               THEN state
                               ELSE "REQUEST_IS_DUPLICATE">>)
    /\ UNCHANGED <<event_log, poll_call, OutsideRunner>>

\* the process of the run request ends
process_exits(state) ==
    /\ process.state = "RUNNING"
    /\ process' = ProcessState(state)
    /\ UNCHANGED <<event_log, run_call, poll_call, OutsideRunner>>

\* _run_deployed_function from its await on
run_continues ==
    /\ run_call.pc = "responded"
    /\ run_call' = [run_call EXCEPT !.pc = RunOutcome(run_call.states[1])]
    /\ IF run_call.states[1] = "RUNNING"
       THEN event_log' = Append(event_log, JobPayload(RunRequestId, "RUNNING"))
       ELSE UNCHANGED event_log
    /\ UNCHANGED <<process, poll_call, OutsideRunner>>

\* the scheduler calls poll_jobs with the last event of the job, whose run
\* request has not ended as far as the event log tells; poll_jobs up to its
\* await
poll_jobs ==
    /\ poll_call.pc \notin {"requested", "responded"}
    /\ event_log # <<>>
    /\ last_event(event_log).state \in {"RUN_REQUESTED", "RUNNING"}
    /\ poll_call' = Coroutine("requested",
                              <<last_event(event_log).request_id>>, <<>>)
    /\ UNCHANGED <<event_log, process, run_call, OutsideRunner>>

\* the server handles get_process_states: it tells the state of the
\* process, or of a request id it knows that it failed to get the state
server_get_process_states(state) ==
    /\ poll_call.pc = "requested"
    /\ \/ state = process.state
       \/ (state = "ERROR_GETTING_STATE" /\ process.state # "UNKNOWN")
    /\ poll_call' = Coroutine("responded", poll_call.request_ids, <<state>>)
    /\ UNCHANGED <<event_log, process, run_call, OutsideRunner>>

\* poll_jobs from its await on
poll_jobs_continues ==
    /\ poll_call.pc = "responded"
    /\ LET new_state == NewPayloadState(poll_call.states[1])
       IN  IF new_state \in {"NotImplementedError", "ValueError"}
           THEN /\ UNCHANGED event_log
                /\ poll_call' = [poll_call EXCEPT !.pc = new_state]
           ELSE /\ poll_call' = [poll_call EXCEPT !.pc = "done"]
                /\ event_log' =
                     event_log \o
                        [i \in 1 .. Len(StatesToAppend(last_event(event_log).state,
                                                       new_state)) |->
                            JobPayload(poll_call.request_ids[1],
                                       StatesToAppend(last_event(event_log).state,
                                                      new_state)[i])]
    /\ UNCHANGED <<process, run_call, OutsideRunner>>

RunnerNext ==
    \/ run
    \/ \E state \in {"RUNNING", "RUN_REQUEST_FAILED"} : server_run_py_func(state)
    \/ \E state \in ExitStates : process_exits(state)
    \/ run_continues
    \/ poll_jobs
    \/ \E state \in ExitStates \union {"UNKNOWN", "RUNNING", "RUN_REQUEST_FAILED",
                                       "ERROR_GETTING_STATE"} :
          server_get_process_states(state)
    \/ poll_jobs_continues

RunnerSpec == RunnerInit /\ [][RunnerNext]_vars

(***************************************************************************)
(* The nextrun client: one request is made of one deployed function.       *)
(***************************************************************************)
\* the variables that the making of a request does not touch
OutsideClient ==
    <<GridVars, ReaderVars, PredicateVars, RegistryVars, BuilderVars,
      RunnerVars>>

ClientInit ==
    /\ NoGrid
    /\ NoReader
    /\ NoPredicate
    /\ NoRegistry
    /\ NoBuilder
    /\ NoRunner
    /\ \E request_id \in {"r1", "r2"}, deployment \in Deployments,
          remote_interpreter \in RemoteInterpreters,
          highest_protocol \in HighestProtocols :
          client_call = ClientCall(request_id, deployment, remote_interpreter,
                                   highest_protocol, "called", 0)

\* the call of _create_run_py_func_request runs to its end
create_run_py_func_request ==
    /\ client_call.status = "called"
    /\ client_call' = _create_run_py_func_request(client_call)
    /\ UNCHANGED OutsideClient

ClientNext == create_run_py_func_request

ClientSpec == ClientInit /\ [][ClientNext]_vars

(***************************************************************************)
(* Properties of the coordinator.                                          *)
(***************************************************************************)
\* the state of the coordinator is the two maps
SameMaps(r) == r.simple_jobs = simple_jobs /\ r.grid_jobs = grid_jobs

\* C1: for every grid job whose unassigned queue has been drained, the task
\* ids that update_grid_task_state_and_get_next returned are the task ids
\* ever added to the job, each once, in the order of their insertion.
C1_DrainedQueueReturnedAllTasksInInsertionOrder ==
    \A id \in DOMAIN grid_jobs :
        grid_jobs[id].unassigned_tasks = <<>>
            => dispatched[id] = TaskIdsOf(grid_jobs[id].all_tasks)

\* C1 witness: a job drained by the last call, whose two tasks were inserted
\* and returned in the order 1, 0.
C1_Witness ==
    /\ last.rpc = "update_grid_task_state_and_get_next"
    /\ last.job_id \in DOMAIN grid_jobs
    /\ last.ret_task = 0
    /\ grid_jobs[last.job_id].unassigned_tasks = <<>>
    /\ dispatched[last.job_id] = <<1, 0>>

\* C2 as stated: in every grid job the unassigned queue holds only tasks of
\* all_tasks, and a task is in the queue exactly when its state is
\* RUN_REQUESTED and it was never dispatched.
C2_QueueIsRunRequestedAndNeverDispatched ==
    \A id \in DOMAIN grid_jobs :
        LET g == grid_jobs[id]
        IN  /\ Range(g.unassigned_tasks) \subseteq Range(TaskIdsOf(g.all_tasks))
            /\ \A i \in 1 .. Len(g.all_tasks) :
                  g.all_tasks[i].task_id \in Range(g.unassigned_tasks)
                  <=> /\ g.all_tasks[i].state = "RUN_REQUESTED"
                      /\ g.all_tasks[i].task_id \notin Range(dispatched[id])

\* C2 amended: in every grid job the unassigned queue holds only tasks of
\* all_tasks, each at most once, and a task is in the queue exactly when it
\* was never dispatched, whatever state was reported for it.
C2_QueueIsNeverDispatched ==
    \A id \in DOMAIN grid_jobs :
        LET g == grid_jobs[id]
        IN  /\ Range(g.unassigned_tasks) \subseteq Range(TaskIdsOf(g.all_tasks))
            /\ Cardinality(Range(g.unassigned_tasks)) = Len(g.unassigned_tasks)
            /\ \A i \in 1 .. Len(g.all_tasks) :
                  g.all_tasks[i].task_id \in Range(g.unassigned_tasks)
                  <=> g.all_tasks[i].task_id \notin Range(dispatched[id])

\* C2 witness: a worker reported SUCCEEDED for task 1 while it was queued and
\* was handed task 0; task 1 is still queued.
C2_Witness ==
    /\ last.rpc = "update_grid_task_state_and_get_next"
    /\ last.job_id \in DOMAIN grid_jobs
    /\ last.ret_task = 0
    /\ grid_jobs[last.job_id].unassigned_tasks = <<1>>
    /\ TaskState(grid_jobs[last.job_id].all_tasks, 1) = "SUCCEEDED"

\* C3: right after get_next_job, if it returned the empty Job then no grid
\* job has more unassigned tasks than workers and no simple job is
\* RUN_REQUESTED; otherwise it returned the retained Job of a job of one of
\* the maps that was such a candidate: a grid job that had more unassigned
\* tasks than workers (so its queue is not empty) or a simple job that was
\* RUN_REQUESTED and is ASSIGNED now.
C3_GetNextJobReturnsEmptyIffNoCandidate ==
    last.rpc = "get_next_job" =>
        IF last.job_id = EmptyJob.job_id
        THEN /\ \A id \in DOMAIN grid_jobs :
                   ~(Len(grid_jobs[id].unassigned_tasks)
                        > grid_jobs[id].num_current_grid_workers)
             /\ \A id \in DOMAIN simple_jobs :
                   simple_jobs[id].state # "RUN_REQUESTED"
        ELSE \/ /\ last.job_id \in DOMAIN grid_jobs
                /\ grid_jobs[last.job_id].num_current_grid_workers >= 1
                /\ Len(grid_jobs[last.job_id].unassigned_tasks)
                      > grid_jobs[last.job_id].num_current_grid_workers - 1
                /\ Len(grid_jobs[last.job_id].unassigned_tasks) > 0
             \/ /\ last.job_id \in DOMAIN simple_jobs
                /\ simple_jobs[last.job_id].state = "ASSIGNED"

\* C3 witness: get_next_job returned the empty Job although a grid job with
\* queued tasks and a simple job exist (each queued task has its worker, the
\* simple job is not RUN_REQUESTED).
C3_Witness ==
    /\ last.rpc = "get_next_job"
    /\ last.job_id = EmptyJob.job_id
    /\ \E id \in DOMAIN grid_jobs : Len(grid_jobs[id].unassigned_tasks) > 0
    /\ DOMAIN simple_jobs # {}

\* C4: every outcome of get_next_job changes exactly one thing.  Returning a
\* grid job raises its num_current_grid_workers by 1 and changes nothing
\* else; returning a simple job sets its state to ASSIGNED and changes
\* nothing else; returning the empty Job changes nothing.
C4_GetNextJobChangesOneThing ==
    \A r \in get_next_job_results(simple_jobs, grid_jobs) :
        LET id == r.job.job_id
        IN  IF r.job = EmptyJob
            THEN SameMaps(r)
            ELSE IF id \in DOMAIN grid_jobs
            THEN /\ r.simple_jobs = simple_jobs
                 /\ DOMAIN r.grid_jobs = DOMAIN grid_jobs
                 /\ \A k \in DOMAIN grid_jobs \ {id} : r.grid_jobs[k] = grid_jobs[k]
                 /\ r.grid_jobs[id].num_current_grid_workers
                       = grid_jobs[id].num_current_grid_workers + 1
                 /\ r.grid_jobs[id].job = grid_jobs[id].job
                 /\ r.grid_jobs[id].all_tasks = grid_jobs[id].all_tasks
                 /\ r.grid_jobs[id].unassigned_tasks = grid_jobs[id].unassigned_tasks
                 /\ r.grid_jobs[id].all_tasks_added = grid_jobs[id].all_tasks_added
            ELSE /\ r.grid_jobs = grid_jobs
                 /\ id \in DOMAIN simple_jobs
                 /\ DOMAIN r.simple_jobs = DOMAIN simple_jobs
                 /\ \A k \in DOMAIN simple_jobs \ {id} :
                       r.simple_jobs[k] = simple_jobs[k]
                 /\ r.simple_jobs[id].state = "ASSIGNED"
                 /\ r.simple_jobs[id].job = simple_jobs[id].job

\* C4 witness: get_next_job has just returned a grid job, which now has two
\* workers, while a simple job is still RUN_REQUESTED.
C4_Witness ==
    /\ last.rpc = "get_next_job"
    /\ last.job_id \in DOMAIN grid_jobs
    /\ grid_jobs[last.job_id].num_current_grid_workers = 2
    /\ \E k \in DOMAIN simple_jobs : simple_jobs[k].state = "RUN_REQUESTED"

\* C5 as stated: add_job rejects every request whose priority is not greater
\* than 0 with a ValueError, whatever its other fields, and changes nothing.
C5_NonPositivePriorityIsRejected ==
    \A request \in AddJobRequests :
        request.priority <= 0
            => /\ add_job_result(request).status = "ValueError"
               /\ SameMaps(add_job_result(request))

\* C6 as stated: add_job with a job_id that is in one of the two maps returns
\* IS_DUPLICATE and changes nothing.
C6_ExistingJobIdIsDuplicate ==
    \A request \in AddJobRequests :
        (request.job_id \in DOMAIN simple_jobs \cup DOMAIN grid_jobs)
            => /\ add_job_result(request).status = "IS_DUPLICATE"
               /\ SameMaps(add_job_result(request))

\* C6 amended: add_job with a job_id that is in one of the two maps changes
\* nothing, whatever the spec, priority and tasks of the request; it returns
\* IS_DUPLICATE when the friendly name is well-formed and raises ValueError
\* when the friendly name has a forbidden character.
C6_ExistingJobIdIsDuplicateUnlessMalformed ==
    \A request \in AddJobRequests :
        (request.job_id \in DOMAIN simple_jobs \cup DOMAIN grid_jobs)
            => /\ add_job_result(request).status =
                     IF request.job_friendly_name = "n!"
                     THEN "ValueError" ELSE "IS_DUPLICATE"
               /\ SameMaps(add_job_result(request))

\* C6 witness: add_job has just answered IS_DUPLICATE for a grid job that has
\* a dispatched task, a reported state and a worker.
C6_Witness ==
    /\ last.rpc = "add_job"
    /\ last.status = "IS_DUPLICATE"
    /\ last.job_id \in DOMAIN grid_jobs
    /\ dispatched[last.job_id] # <<>>
    /\ grid_jobs[last.job_id].num_current_grid_workers > 0
    /\ \E i \in 1 .. Len(grid_jobs[last.job_id].all_tasks) :
          grid_jobs[last.job_id].all_tasks[i].state = "SUCCEEDED"

\* C7: get_next_job returns a simple job only if its state is RUN_REQUESTED,
\* and leaves it ASSIGNED, so that no get_next_job that follows directly can
\* return it again; and the state of a simple job becomes RUN_REQUESTED
\* again only by update_job_states.
C7_SimpleJobReturnedOncePerRunRequested ==
    [][/\ (last'.rpc = "get_next_job" /\ last'.job_id \in DOMAIN simple_jobs)
            => /\ simple_jobs[last'.job_id].state = "RUN_REQUESTED"
               /\ simple_jobs'[last'.job_id].state = "ASSIGNED"
               /\ \A r \in get_next_job_results(simple_jobs', grid_jobs') :
                     r.job.job_id # last'.job_id
       /\ \A id \in DOMAIN simple_jobs :
             (simple_jobs[id].state # "RUN_REQUESTED"
                 /\ simple_jobs'[id].state = "RUN_REQUESTED")
             => last'.rpc = "update_job_states"
      ]_vars

\* C7 witness: the only job is a simple job that was dispatched (ASSIGNED),
\* and the get_next_job after it has returned the empty Job.
C7_Witness ==
    /\ last.rpc = "get_next_job"
    /\ last.job_id = EmptyJob.job_id
    /\ grid_jobs = EmptyDict
    /\ Cardinality(DOMAIN simple_jobs) = 1
    /\ \A id \in DOMAIN simple_jobs : simple_jobs[id].state = "ASSIGNED"

\* C8: num_current_grid_workers of every grid job is >= 0, and
\* update_grid_task_state_and_get_next on a job whose unassigned queue is
\* empty (with no task update or with the update of a known task) returns
\* task_id -1 and leaves the counter at max(0, counter - 1).
C8_WorkerCounterNeverNegative ==
    \A id \in DOMAIN grid_jobs :
        /\ grid_jobs[id].num_current_grid_workers >= 0
        /\ grid_jobs[id].unassigned_tasks = <<>>
           => \A task_id \in {-1} \cup Range(TaskIdsOf(grid_jobs[id].all_tasks)),
                 process_state \in ReportedStates :
                 LET r == update_grid_task_state_and_get_next_result(
                              grid_jobs, id, task_id, process_state)
                     n == grid_jobs[id].num_current_grid_workers
                 IN  /\ r.task_id = -1
                     /\ r.grid_jobs[id].num_current_grid_workers
                           = IF n >= 1 THEN n - 1 ELSE 0

\* C8 witness: a grid job without tasks, to which get_next_job never attached
\* a worker, was just sent the stop signal and its counter is 0.
C8_Witness ==
    /\ last.rpc = "update_grid_task_state_and_get_next"
    /\ last.job_id \in DOMAIN grid_jobs
    /\ last.ret_task = -1
    /\ grid_jobs[last.job_id].all_tasks = <<>>
    /\ grid_jobs[last.job_id].num_current_grid_workers = 0

\* C9: update_grid_task_state_and_get_next with a job_id that is no grid job,
\* or with a task_id other than -1 that the grid job does not hold, returns
\* task_id -1 and leaves both maps as they are.
C9_UnknownJobOrTaskIsStopSignal ==
    \A job_id \in ValidJobIds, task_id \in UpdateTaskIds,
       process_state \in ReportedStates :
        LET r == update_grid_task_state_and_get_next_result(
                     grid_jobs, job_id, task_id, process_state)
            unknown_job == job_id \notin DOMAIN grid_jobs
            unknown_task ==
                /\ job_id \in DOMAIN grid_jobs
                /\ task_id # -1
                /\ \A i \in 1 .. Len(grid_jobs[job_id].all_tasks) :
                      grid_jobs[job_id].all_tasks[i].task_id # task_id
        IN  (unknown_job \/ unknown_task)
                => r.task_id = -1 /\ r.grid_jobs = grid_jobs

\* C9 witness: the last call was answered with -1 although the job's
\* unassigned queue is not empty and holds a RUN_REQUESTED task.
C9_Witness ==
    /\ last.rpc = "update_grid_task_state_and_get_next"
    /\ last.job_id \in DOMAIN grid_jobs
    /\ last.ret_task = -1
    /\ grid_jobs[last.job_id].unassigned_tasks # <<>>
    /\ \A i \in 1 .. Len(grid_jobs[last.job_id].all_tasks) :
          grid_jobs[last.job_id].all_tasks[i].state = "RUN_REQUESTED"

\* what C10 says a handler's resulting grid-job map gj keeps of the sealed
\* job id
KeepsSealedJob(gj, id) ==
    /\ id \in DOMAIN gj
    /\ gj[id].all_tasks_added
    /\ TaskIdsOf(gj[id].all_tasks) = TaskIdsOf(grid_jobs[id].all_tasks)

\* C10: once all_tasks_added of a grid job is true, no call of any handler
\* makes it false or changes the job's task ids; add_tasks_to_grid_job on
\* such a job raises ValueError exactly when the request holds a task id that
\* all_tasks does not hold, and changes nothing in either case.
C10_SealedJobKeepsItsTasks ==
    \A id \in DOMAIN grid_jobs :
        grid_jobs[id].all_tasks_added
        => /\ \A tasks \in TaskLists, all_tasks_added \in BOOLEAN :
                 LET r == add_tasks_to_grid_job_result(id, tasks, all_tasks_added)
                     new_id == \E i \in 1 .. Len(tasks) :
                                  tasks[i] \notin
                                     Range(TaskIdsOf(grid_jobs[id].all_tasks))
                 IN  /\ r.status = IF new_id THEN "ValueError" ELSE "OK"
                     /\ SameMaps(r)
           /\ \A job_id \in ValidJobIds \ {id}, tasks \in TaskLists,
                 all_tasks_added \in BOOLEAN :
                 KeepsSealedJob(
                     add_tasks_to_grid_job_result(job_id, tasks, all_tasks_added)
                        .grid_jobs, id)
           /\ \A request \in AddJobRequests :
                 KeepsSealedJob(add_job_result(request).grid_jobs, id)
           /\ \A r \in get_next_job_results(simple_jobs, grid_jobs) :
                 KeepsSealedJob(r.grid_jobs, id)
           /\ \A job_id \in ValidJobIds, task_id \in UpdateTaskIds,
                 process_state \in ReportedStates :
                 KeepsSealedJob(
                     update_grid_task_state_and_get_next_result(
                         grid_jobs, job_id, task_id, process_state).grid_jobs, id)

\* C10 witness: add_tasks_to_grid_job has just failed on a sealed job that
\* holds a task and has an empty queue.
C10_Witness ==
    /\ last.rpc = "add_tasks_to_grid_job"
    /\ last.status = "ValueError"
    /\ last.job_id \in DOMAIN grid_jobs
    /\ grid_jobs[last.job_id].all_tasks_added
    /\ grid_jobs[last.job_id].all_tasks # <<>>

(***************************************************************************)
(* add_job with a py_grid spec.                                            *)
(***************************************************************************)
\* the elements of a sequence without repetitions, each at the place of its
\* first occurrence
RECURSIVE FirstOccurrences(_)
FirstOccurrences(seq) ==
    IF seq = <<>>
    THEN <<>>
    ELSE LET front == FirstOccurrences(SubSeq(seq, 1, Len(seq) - 1))
             x == seq[Len(seq)]
         IN  IF x \in Range(front) THEN front ELSE Append(front, x)

\* the elements >= 0 of a sequence of integers, in order
NonNegatives(seq) == SelectSeq(seq, LAMBDA x : x >= 0)

\* the py_grid requests that pass the checks of the identifiers, of the
\* duplicate and of the priority
AcceptableGridRequests ==
    {request \in AddJobRequests :
        /\ request.job_spec = "py_grid"
        /\ request.job_id \in ValidJobIds
        /\ request.job_friendly_name = "n"
        /\ request.priority > 0
        /\ request.job_id \notin DOMAIN simple_jobs \cup DOMAIN grid_jobs}

\* what C11 says of the grid job g made from the request with the task ids
\* ids: the tasks are ids in this order, all RUN_REQUESTED, all queued in this
\* order, no worker, the flag of the request, no tasks in the retained Job
IsFreshGridJob(g, request, ids) ==
    /\ TaskIdsOf(g.all_tasks) = ids
    /\ \A i \in 1 .. Len(g.all_tasks) : g.all_tasks[i].state = "RUN_REQUESTED"
    /\ g.unassigned_tasks = ids
    /\ g.num_current_grid_workers = 0
    /\ g.all_tasks_added = request.all_tasks_added
    /\ g.job = [request EXCEPT !.tasks = <<>>]

\* C11 as stated: add_job with a py_grid spec of tasks T and flag b creates a
\* grid job whose all_tasks holds the distinct non-negative ids of T (first
\* occurrence wins), all RUN_REQUESTED, queued in submission order, with no
\* worker, with all_tasks_added = b and with no tasks in the retained Job.
C11_GridJobHoldsNonNegativeIdsOfRequest ==
    \A request \in AcceptableGridRequests :
        LET r == add_job_result(request)
        IN  /\ r.status = "ADDED"
            /\ r.simple_jobs = simple_jobs
            /\ DOMAIN r.grid_jobs = DOMAIN grid_jobs \cup {request.job_id}
            /\ IsFreshGridJob(r.grid_jobs[request.job_id], request,
                              FirstOccurrences(NonNegatives(request.tasks)))

\* C11 amended: when no task id of T is negative, add_job with a py_grid spec
\* creates a grid job whose all_tasks holds the distinct ids of T (first
\* occurrence wins), all RUN_REQUESTED, queued in submission order, with no
\* worker, with all_tasks_added = b and with no tasks in the retained Job,
\* and changes no other job; when T holds a negative id, add_job raises
\* ValueError and creates no job.  Every Job that get_next_job returns
\* carries no tasks.
C11_GridJobHoldsIdsOfRequestUnlessNegative ==
    /\ \A request \in AcceptableGridRequests :
          LET r == add_job_result(request)
          IN  IF \A i \in 1 .. Len(request.tasks) : request.tasks[i] >= 0
              THEN /\ r.status = "ADDED"
                   /\ r.simple_jobs = simple_jobs
                   /\ DOMAIN r.grid_jobs = DOMAIN grid_jobs \cup {request.job_id}
                   /\ \A k \in DOMAIN grid_jobs : r.grid_jobs[k] = grid_jobs[k]
                   /\ IsFreshGridJob(r.grid_jobs[request.job_id], request,
                                     FirstOccurrences(request.tasks))
              ELSE r.status = "ValueError" /\ SameMaps(r)
    /\ \A r \in get_next_job_results(simple_jobs, grid_jobs) : r.job.tasks = <<>>

\* C11 witness: add_job has just created a sealed grid job from the tasks
\* 1, 0: both are queued in this order and no worker is attached.
C11_Witness ==
    /\ last.rpc = "add_job"
    /\ last.status = "ADDED"
    /\ last.job_id \in DOMAIN grid_jobs
    /\ grid_jobs[last.job_id].all_tasks_added
    /\ grid_jobs[last.job_id].unassigned_tasks = <<1, 0>>
    /\ grid_jobs[last.job_id].num_current_grid_workers = 0
    /\ grid_jobs[last.job_id].job.tasks = <<>>

(***************************************************************************)
(* update_job_states.                                                      *)
(***************************************************************************)
\* the places of the entries of job_states that name job_id
EntriesFor(job_states, job_id) ==
    {i \in 1 .. Len(job_states) : job_states[i].job_id = job_id}

\* the largest element of a non-empty set of integers
Maximum(S) == CHOOSE x \in S : \A y \in S : y <= x

\* C12: update_job_states with any batch leaves the key set of the simple-job
\* map as it is (no job is created for an unknown id or for a grid job),
\* leaves every simple job that no entry names as it is, and gives every
\* simple job that an entry names the state of the last such entry, whatever
\* its state was, keeping its Job; and every step of update_job_states
\* leaves the grid-job map (the jobs, their tasks, queues and worker
\* counters) and the dispatch history unchanged and raises nothing.
C12_UpdateJobStatesOverwritesSimpleJobsOnly ==
    /\ [](\A job_states \in JobStateUpdates :
            LET r == update_job_states_result(simple_jobs, job_states)
            IN  /\ DOMAIN r = DOMAIN simple_jobs
                /\ \A id \in DOMAIN simple_jobs :
                      LET named == EntriesFor(job_states, id)
                      IN  IF named = {}
                          THEN r[id] = simple_jobs[id]
                          ELSE /\ r[id].state =
                                     job_states[Maximum(named)].process_state
                               /\ r[id].job = simple_jobs[id].job)
    /\ [][last'.rpc = "update_job_states"
             => /\ grid_jobs' = grid_jobs
                /\ dispatched' = dispatched
                /\ DOMAIN simple_jobs' = DOMAIN simple_jobs
                /\ last'.status = "OK"]_vars

\* C12 witness: update_job_states has just run, a simple job is SUCCEEDED (a
\* state that only an update gives) and a grid job with a queued task and a
\* worker exists.
C12_Witness ==
    /\ last.rpc = "update_job_states"
    /\ \E id \in DOMAIN simple_jobs : simple_jobs[id].state = "SUCCEEDED"
    /\ \E id \in DOMAIN grid_jobs :
          /\ grid_jobs[id].unassigned_tasks # <<>>
          /\ grid_jobs[id].num_current_grid_workers > 0

(***************************************************************************)
(* The query RPCs.                                                         *)
(***************************************************************************)
\* C13: every get_simple_job_states step answers with exactly one state per
\* requested id, in the order of the request: the state of the simple job
\* when the id is a key of the simple-job map, UNKNOWN otherwise (also when
\* the id is a grid job); and it leaves both maps and the dispatch history
\* as they are.
C13_OneStatePerRequestedId ==
    [][last'.rpc = "get_simple_job_states"
          => /\ Len(last'.response) = Len(last'.request)
             /\ \A i \in 1 .. Len(last'.request) :
                   last'.response[i] =
                      IF last'.request[i] \in DOMAIN simple_jobs
                      THEN simple_jobs[last'.request[i]].state
                      ELSE "UNKNOWN"
             /\ \A i \in 1 .. Len(last'.request) :
                   last'.request[i] \in DOMAIN grid_jobs
                      => last'.response[i] = "UNKNOWN"
             /\ simple_jobs' = simple_jobs
             /\ grid_jobs' = grid_jobs
             /\ dispatched' = dispatched]_vars

\* C13 witness: get_simple_job_states was asked for "b", "a" with "b" a
\* simple job that is ASSIGNED and "a" a grid job, and answered ASSIGNED,
\* UNKNOWN.
C13_Witness ==
    /\ last.rpc = "get_simple_job_states"
    /\ last.request = <<"b", "a">>
    /\ "b" \in DOMAIN simple_jobs
    /\ "a" \in DOMAIN grid_jobs
    /\ last.response = <<"ASSIGNED", "UNKNOWN">>

\* C14: every get_grid_task_states step for a job_id that is a grid job
\* answers with exactly the tasks of the job whose id is not in
\* task_ids_to_ignore, each once and with its current state, whether the
\* task was dispatched or not; for a job_id that is no grid job it raises
\* ValueError; and it leaves both maps and the dispatch history as they are.
C14_TaskStatesOfTasksNotIgnored ==
    [][last'.rpc = "get_grid_task_states"
          => /\ IF last'.job_id \in DOMAIN grid_jobs
                THEN LET all_tasks == grid_jobs[last'.job_id].all_tasks
                         expected ==
                             {[task_id |-> all_tasks[i].task_id,
                               process_state |-> all_tasks[i].state] :
                                i \in {j \in 1 .. Len(all_tasks) :
                                          all_tasks[j].task_id \notin last'.request}}
                     IN  /\ last'.status = "OK"
                         /\ Range(last'.response) = expected
                         /\ Len(last'.response) = Cardinality(expected)
                ELSE last'.status = "ValueError"
             /\ simple_jobs' = simple_jobs
             /\ grid_jobs' = grid_jobs
             /\ dispatched' = dispatched]_vars

\* C14 witness: get_grid_task_states, told to ignore task 0, has answered
\* with task 1 alone, which is dispatched and SUCCEEDED, for a job that
\* holds two tasks.
C14_Witness ==
    /\ last.rpc = "get_grid_task_states"
    /\ last.status = "OK"
    /\ last.request = {0}
    /\ Len(grid_jobs[last.job_id].all_tasks) = 2
    /\ 1 \in Range(dispatched[last.job_id])
    /\ last.response = <<[task_id |-> 1, process_state |-> "SUCCEEDED"]>>

(***************************************************************************)
(* The key sets of the two maps.                                           *)
(***************************************************************************)
\* C15: no job_id is a key of both maps; every step keeps every key of each
\* map in that map (none is removed, none is moved to the other map) and
\* keeps the Job stored under it; and add_job for a job_id that is a key
\* changes neither map (the job is not inserted again).
C15_JobIdsAreUniqueAndPermanent ==
    /\ [](DOMAIN simple_jobs \cap DOMAIN grid_jobs = {})
    /\ [][/\ DOMAIN simple_jobs \subseteq DOMAIN simple_jobs'
          /\ DOMAIN grid_jobs \subseteq DOMAIN grid_jobs'
          /\ \A id \in DOMAIN simple_jobs : simple_jobs'[id].job = simple_jobs[id].job
          /\ \A id \in DOMAIN grid_jobs : grid_jobs'[id].job = grid_jobs[id].job
          /\ (last'.rpc = "add_job"
                 /\ last'.job_id \in DOMAIN simple_jobs \cup DOMAIN grid_jobs)
              => simple_jobs' = simple_jobs /\ grid_jobs' = grid_jobs
          ]_vars

\* C15 witness: both maps hold a job, the grid job has a dispatched task and
\* the simple job is SUCCEEDED, and an add_job for the grid job's id has just
\* been answered.
C15_Witness ==
    /\ last.rpc = "add_job"
    /\ last.job_id \in DOMAIN grid_jobs
    /\ dispatched[last.job_id] # <<>>
    /\ \E id \in DOMAIN simple_jobs : simple_jobs[id].state = "SUCCEEDED"

(***************************************************************************)
(* Starvation.                                                             *)
(***************************************************************************)
\* get_next_job has just returned the simple job id, which is ASSIGNED
ReturnedAndAssigned(id) ==
    /\ last.rpc = "get_next_job"
    /\ last.job_id = id
    /\ id \in DOMAIN simple_jobs
    /\ simple_jobs[id].state = "ASSIGNED"

\* C16 as stated: under a fair dispatcher every simple job that is
\* RUN_REQUESTED is eventually returned by get_next_job and ASSIGNED.
C16_RunRequestedIsEventuallyReturned ==
    \A id \in ValidJobIds :
        (id \in DOMAIN simple_jobs /\ simple_jobs[id].state = "RUN_REQUESTED")
            ~> ReturnedAndAssigned(id)

\* C16 amended: under a fair dispatcher every simple job that is
\* RUN_REQUESTED is eventually returned by get_next_job and ASSIGNED, or
\* update_job_states has given it another state before the dispatcher drew
\* it.
C16_RunRequestedIsEventuallyReturnedOrOverwritten ==
    \A id \in ValidJobIds :
        (id \in DOMAIN simple_jobs /\ simple_jobs[id].state = "RUN_REQUESTED")
            ~> \/ ReturnedAndAssigned(id)
               \/ /\ last.rpc = "update_job_states"
                  /\ id \in DOMAIN simple_jobs
                  /\ simple_jobs[id].state # "RUN_REQUESTED"

\* C16 witness: get_next_job has just returned a simple job of priority 1
\* while a grid job of priority 2 with more queued tasks than workers was a
\* candidate too.
C16_Witness ==
    /\ \E id \in ValidJobIds :
          ReturnedAndAssigned(id) /\ simple_jobs[id].job.priority = 1
    /\ \E id \in DOMAIN grid_jobs :
          /\ grid_jobs[id].job.priority = 2
          /\ Len(grid_jobs[id].unassigned_tasks)
                > grid_jobs[id].num_current_grid_workers

(***************************************************************************)
(* Calls in flight at the same time.                                       *)
(***************************************************************************)
\* worker w's handler returns in this step
Returns(w) == calls[w].pc # "done" /\ calls'[w].pc = "done"

\* C17: with any number of calls in flight in any order, every handler acts
\* on the state as it is when the handler returns: a get_next_job that
\* returns a simple job finds it RUN_REQUESTED and leaves it ASSIGNED, so the
\* next get_next_job cannot receive it; an
\* update_grid_task_state_and_get_next that returns a task finds it at the
\* head of the queue, never dispatched, and takes it off the queue.  Hence
\* no task is dispatched twice, and two workers whose calls have returned
\* never hold the same task.
C17_HandlersAreAtomic ==
    /\ [](\A id \in ValidJobIds :
            Cardinality(Range(dispatched[id])) = Len(dispatched[id]))
    /\ [](\A w1 \in Workers, w2 \in Workers :
            (/\ w1 # w2
             /\ calls[w1].pc = "done" /\ calls[w2].pc = "done"
             /\ calls[w1].rpc = "update_grid_task_state_and_get_next"
             /\ calls[w2].rpc = "update_grid_task_state_and_get_next"
             /\ calls[w1].job = calls[w2].job
             /\ calls[w1].task >= 0)
            => calls[w1].task # calls[w2].task)
    /\ [][\A w \in Workers :
             Returns(w) =>
                /\ (calls'[w].rpc = "get_next_job" /\ calls'[w].kind = "simple")
                   => /\ simple_jobs[calls'[w].job].state = "RUN_REQUESTED"
                      /\ simple_jobs'[calls'[w].job].state = "ASSIGNED"
                      /\ <<"simple", calls'[w].job>>
                            \notin available_jobs(simple_jobs', grid_jobs')
                /\ (calls'[w].rpc = "update_grid_task_state_and_get_next"
                      /\ calls'[w].task >= 0)
                   => /\ grid_jobs[calls'[w].job].unassigned_tasks # <<>>
                      /\ Head(grid_jobs[calls'[w].job].unassigned_tasks)
                            = calls'[w].task
                      /\ calls'[w].task \notin Range(dispatched[calls'[w].job])
                      /\ calls'[w].task \notin
                            Range(grid_jobs'[calls'[w].job].unassigned_tasks)
         ]_vars

\* C17 witness: both workers' get_next_job calls have returned; one received
\* the simple job, which is ASSIGNED, the other the empty Job.
C17_Witness ==
    /\ \A w \in Workers : calls[w].pc = "done" /\ calls[w].rpc = "get_next_job"
    /\ \E w1 \in Workers, w2 \in Workers :
          /\ calls[w1].kind = "simple"
          /\ simple_jobs[calls[w1].job].state = "ASSIGNED"
          /\ calls[w2].job = EmptyJob.job_id

(***************************************************************************)
(* The reader.                                                             *)
(***************************************************************************)
\* a row satisfies a bool column
RECURSIVE Satisfies(_, _)
Satisfies(row, filter_column) ==
    IF filter_column.type = "OpArg"
    THEN IF filter_column.op = "="
         THEN row[filter_column.column_name] = filter_column.arg
         ELSE row[filter_column.column_name] # filter_column.arg
    ELSE IF filter_column.op = "AND"
         THEN Satisfies(row, filter_column.series_a)
                 /\ Satisfies(row, filter_column.series_b)
         ELSE Satisfies(row, filter_column.series_a)
                 \/ Satisfies(row, filter_column.series_b)

\* a row satisfies every row filter of the ops
SatisfiesAll(row, ops) ==
    \A i \in 1 .. Len(row_args(ops)) : Satisfies(row, row_args(ops)[i])

\* the logical view of a data list, oldest entry first: a write appends its
\* rows and, with deduplication keys, removes the rows of older writes that
\* have the keys of one of its rows; a delete removes the rows it matches; a
\* delete_all removes every row
RECURSIVE LogicalView(_, _)
LogicalView(data_list, deduplication_keys) ==
    IF data_list = <<>>
    THEN <<>>
    ELSE LET newest == data_list[Len(data_list)]
             older == LogicalView(SubSeq(data_list, 1, Len(data_list) - 1),
                                  deduplication_keys)
         IN  IF newest.data_file_type = "write"
             THEN SelectSeq(older, LAMBDA row :
                      deduplication_keys = <<>>
                         \/ ~Joins(row, newest.rows, Range(deduplication_keys)))
                    \o newest.rows
             ELSE IF newest.data_file_type = "delete"
             THEN SelectSeq(older, LAMBDA row :
                      ~Joins(row, newest.rows, newest.columns))
             ELSE <<>>

\* the ops applied to a sequence of rows: the row filters, then the
\* projection on the columns selected last
OpsApplied(rows, ops) ==
    LET kept == SelectSeq(rows, LAMBDA row : SatisfiesAll(row, ops))
        columns == IF column_args(ops) = <<>>
                   THEN AllColumns
                   ELSE column_args(ops)[Len(column_args(ops))]
    IN  [i \in 1 .. Len(kept) |-> Project(kept[i], columns)]

\* C19 as stated: the rows that to_pd returns are the rows obtained by
\* applying the ops (row filters, then projection) to the logical view of
\* the data list: the writes oldest first, without the deleted rows, later
\* writes superseding earlier ones on equal deduplication keys.
C19_ToPdIsOpsOnLogicalView ==
    materialized.status = "OK"
        => materialized.rows =
              OpsApplied(LogicalView(mdb_table.data_list,
                                     mdb_table.table_schema.deduplication_keys),
                         mdb_table.ops)

\* C20 as stated: the where_clause compiled from the ops holds on a row
\* exactly when the row satisfies every row filter of the ops, and to_pd on
\* a table of one write file without deduplication keys returns exactly the
\* rows of the file that satisfy every row filter.
C20_RowFiltersAreConjoined ==
    /\ _construct_sql(mdb_table).where_clause.sql # "raise"
          => \A row \in FileRows :
                SqlHolds(_construct_sql(mdb_table).where_clause, row)
                   <=> SatisfiesAll(row, mdb_table.ops)
    /\ (/\ materialized.status = "OK"
        /\ Len(mdb_table.data_list) = 1
        /\ mdb_table.data_list[1].data_file_type = "write"
        /\ mdb_table.table_schema.deduplication_keys = <<>>)
       => materialized.rows = OpsApplied(mdb_table.data_list[1].rows, mdb_table.ops)

\* the table with only the entries of its data list that are newer than the
\* entry at position k
NewerThan(table, k) ==
    MdbTable(table.version_number, table.table_schema,
             SubSeq(table.data_list, k + 1, Len(table.data_list)), table.ops)

\* C21: when the data list has a delete_all at position k, what to_pd
\* returns (the rows or the exception) is what it returns for the entries
\* newer than k alone: no older write contributes a row, no older delete
\* and no older entry of an unknown type has an effect, whatever the
\* deduplication keys and the ops.
C21_NothingOlderThanDeleteAllCounts ==
    materialized.status # "none"
       => \A k \in 1 .. Len(mdb_table.data_list) :
             mdb_table.data_list[k].data_file_type = "delete_all"
                => materialized = to_pd_result(NewerThan(mdb_table, k))

\* to_pd returned the rows of a write that is newer than a delete_all, below
\* which the data list holds a write or an entry of an unknown type
C21_Witness ==
    /\ materialized.status = "OK"
    /\ materialized.rows # <<>>
    /\ Len(mdb_table.data_list) = 3
    /\ mdb_table.data_list[1].data_file_type \in {"write", "compact"}
    /\ mdb_table.data_list[2].data_file_type = "delete_all"
    /\ mdb_table.data_list[3].data_file_type = "write"
    /\ mdb_table.table_schema.deduplication_keys # <<>>
    /\ mdb_table.ops # <<>>

\* the data list is [W1, W2, delete_all, W3] and to_pd was called
TerminatedListMaterialized ==
    /\ mdb_table.data_list \in TerminatedDataLists
    /\ materialized.status # "none"

\* C22 as stated: for the data list [W1, W2, delete_all, W3], to_pd returns
\* the rows of W1 and W2 (the later write superseding the earlier one on
\* equal deduplication keys) under the ops, and no row of W3.
C22_RowsOfW1AndW2 ==
    (TerminatedListMaterialized /\ materialized.status = "OK")
       => materialized.rows =
             OpsApplied(LogicalView(SubSeq(mdb_table.data_list, 1, 2),
                                    mdb_table.table_schema.deduplication_keys),
                        mdb_table.ops)

\* C22 amended: for the data list [W1, W2, delete_all, W3], oldest entry
\* first, to_pd returns what it returns for the data list [W3]: without ops
\* the rows of W3, with ops rows of W3 only, on the columns selected; W1
\* and W2, which are older than the delete_all, are ignored.
C22_RowsOfW3 ==
    TerminatedListMaterialized
       => LET W3 == mdb_table.data_list[4].rows
              sql == _construct_sql(mdb_table)
          IN  /\ materialized =
                    to_pd_result(MdbTable(mdb_table.version_number,
                                          mdb_table.table_schema,
                                          <<mdb_table.data_list[4]>>,
                                          mdb_table.ops))
              /\ mdb_table.ops = <<>> => materialized = Materialized("OK", W3, {})
              /\ materialized.status = "OK"
                    => \A i \in 1 .. Len(materialized.rows) :
                          materialized.rows[i] = Project(W3[1], sql.select_clause)

\* to_pd returned the row of W3, which differs from the rows of W1 and W2,
\* under a row filter and a projection
C22_Witness ==
    /\ TerminatedListMaterialized
    /\ materialized.status = "OK"
    /\ Len(materialized.rows) = 1
    /\ mdb_table.data_list[4].rows[1] # mdb_table.data_list[1].rows[1]
    /\ mdb_table.data_list[4].rows[1] # mdb_table.data_list[2].rows[1]
    /\ Len(mdb_table.ops) = 2

\* the rows of the write at position i that no newer write supersedes: with
\* deduplication keys, the rows whose key tuple no newer write contains
RowsNotSuperseded(data_list, deduplication_keys, i) ==
    SelectSeq(data_list[i].rows, LAMBDA row :
        \/ deduplication_keys = <<>>
        \/ \A j \in i + 1 .. Len(data_list) :
              ~Joins(row, data_list[j].rows, Range(deduplication_keys)))

\* the rows not superseded of the writes from position i on, oldest first
RECURSIVE WritesConcatenated(_, _, _)
WritesConcatenated(data_list, deduplication_keys, i) ==
    IF i > Len(data_list)
    THEN <<>>
    ELSE RowsNotSuperseded(data_list, deduplication_keys, i)
            \o WritesConcatenated(data_list, deduplication_keys, i + 1)

\* the data list holds writes only, there are no ops, to_pd was called
WritesOnlyMaterialized ==
    /\ \A i \in 1 .. Len(mdb_table.data_list) :
          mdb_table.data_list[i].data_file_type = "write"
    /\ mdb_table.ops = <<>>
    /\ materialized.status # "none"

\* C23: without ops, to_pd on a data list of writes only returns the rows
\* of the files, older file first and in file order, and with
\* deduplication keys only the rows whose key tuple no newer write
\* contains; on the empty data list it returns no row.
C23_WritesOldestFirstNewestWins ==
    WritesOnlyMaterialized
       => materialized =
             Materialized("OK",
                 WritesConcatenated(mdb_table.data_list,
                     mdb_table.table_schema.deduplication_keys, 1), {})

\* to_pd returned rows of three writes, fewer than the files hold, the
\* oldest file contributing the first row
C23_Witness ==
    /\ WritesOnlyMaterialized
    /\ mdb_table.table_schema.deduplication_keys = <<"k">>
    /\ Len(mdb_table.data_list) = 3
    /\ Len(materialized.rows) = 2
    /\ materialized.rows[1] \in Range(mdb_table.data_list[1].rows)
    /\ materialized.rows[1] \notin Range(mdb_table.data_list[3].rows)
    /\ materialized.rows[2] \in Range(mdb_table.data_list[3].rows)
    /\ Len(mdb_table.data_list[1].rows) + Len(mdb_table.data_list[2].rows)
          + Len(mdb_table.data_list[3].rows) > 2

\* the table without the delete at position d of its data list and without
\* the rows of older writes that equal a row of the delete on every column
\* of the delete
WithoutDeleted(table, d) ==
    LET delete == table.data_list[d].rows
        older == [i \in 1 .. d - 1 |->
                    IF table.data_list[i].data_file_type = "write"
                    THEN DataFileEntry("write",
                             SelectSeq(table.data_list[i].rows, LAMBDA row :
                                 ~Joins(row, delete, table.data_list[d].columns)))
                    ELSE table.data_list[i]]
    IN  MdbTable(table.version_number, table.table_schema,
                 older \o SubSeq(table.data_list, d + 1, Len(table.data_list)),
                 table.ops)

\* the last n elements of a sequence
Last(seq, n) == SubSeq(seq, Len(seq) - n + 1, Len(seq))

\* C24: when to_pd returns, a delete of the data list has acted as the
\* removal, from the writes older than it, of the rows that equal one of
\* its rows on every column of the delete: the result is that of the data
\* list without the delete and without those rows, and it ends with the
\* result of the entries newer than the delete, which lose no row.  With
\* the deduplication key k, the data list [W1 = {(1, A), (2, B)},
\* W2 = {(1, C)}, D1 = {k = 2}] gives [(1, C)].
C24_DeleteRemovesMatchingOlderRows ==
    /\ materialized.status = "OK"
          => \A d \in 1 .. Len(mdb_table.data_list) :
                mdb_table.data_list[d].data_file_type = "delete"
                   => LET newer == to_pd_result(NewerThan(mdb_table, d))
                      IN  /\ materialized = to_pd_result(WithoutDeleted(mdb_table, d))
                          /\ newer.status = "OK"
                          /\ Len(newer.rows) <= Len(materialized.rows)
                          /\ Last(materialized.rows, Len(newer.rows)) = newer.rows
    /\ (/\ materialized.status # "none"
        /\ mdb_table.table_schema.deduplication_keys = <<"k">>
        /\ mdb_table.ops = <<>>
        /\ mdb_table.data_list =
              <<DataFileEntry("write", <<[k |-> 1, v |-> 10], [k |-> 2, v |-> 10]>>),
                DataFileEntry("write", <<[k |-> 1, v |-> 20]>>),
                DataFileEntry("delete", <<[k |-> 2]>>)>>)
          => materialized = Materialized("OK", <<[k |-> 1, v |-> 20]>>, {})

\* to_pd returned rows of a write older than a delete over two columns
\* that removed another row of that write, and of a write newer than the
\* delete that also holds a row that the delete matches
C24_Witness ==
    /\ materialized.status = "OK"
    /\ Len(mdb_table.data_list) = 3
    /\ mdb_table.data_list[1] =
          DataFileEntry("write", <<[k |-> 1, v |-> 10], [k |-> 1, v |-> 20]>>)
    /\ mdb_table.data_list[2] = DataFileEntry("delete", <<[k |-> 1, v |-> 10]>>)
    /\ mdb_table.data_list[3] =
          DataFileEntry("write", <<[k |-> 1, v |-> 10], [k |-> 2, v |-> 10]>>)
    /\ materialized.rows =
          <<[k |-> 1, v |-> 20], [k |-> 1, v |-> 10], [k |-> 2, v |-> 10]>>

\* every later column list of args selects only columns of the list before
Narrowing(args) == \A i \in 2 .. Len(args) : args[i] \subseteq args[i - 1]

\* the first column list of args that selects a column that the list
\* before it lacks
FirstBroadening(args) ==
    CHOOSE i \in 2 .. Len(args) :
        /\ ~(args[i] \subseteq args[i - 1])
        /\ \A j \in 2 .. i - 1 : args[j] \subseteq args[j - 1]

\* the table with the ops replaced
WithOps(table, ops) ==
    MdbTable(table.version_number, table.table_schema, table.data_list, ops)

\* C25 as stated, for a table of writes whose ops are column selections
\* only: to_pd succeeds exactly when every later column list selects only
\* columns of the list before it, and then returns what it returns for the
\* last column list alone, rows over the columns of that list; otherwise it
\* raises the ValueError that names exactly the columns of the first such
\* list that the list before it lacks.
C25_ProjectionsCompose ==
    LET args == column_args(mdb_table.ops)
    IN  (/\ materialized.status # "none"
         /\ Len(args) = Len(mdb_table.ops)
         /\ Len(args) >= 1
         /\ \A i \in 1 .. Len(mdb_table.data_list) :
               mdb_table.data_list[i].data_file_type = "write")
           => /\ materialized.status = "OK" <=> Narrowing(args)
              /\ Narrowing(args)
                    => /\ materialized =
                             to_pd_result(WithOps(mdb_table,
                                 <<_SelectColumnsOp(args[Len(args)])>>))
                       /\ \A i \in 1 .. Len(materialized.rows) :
                             DOMAIN materialized.rows[i] = args[Len(args)]
              /\ ~Narrowing(args)
                    => materialized =
                          Materialized("ValueError", <<>>,
                              args[FirstBroadening(args)]
                                 \ args[FirstBroadening(args) - 1])

\* some leaf of the bool column was built from a table of another version
\* than version_number
RECURSIVE HasLeafOfOtherVersion(_, _)
HasLeafOfOtherVersion(filter_column, version_number) ==
    IF filter_column.type = "OpArg"
    THEN filter_column.mdb_table # version_number
    ELSE \/ HasLeafOfOtherVersion(filter_column.series_a, version_number)
         \/ HasLeafOfOtherVersion(filter_column.series_b, version_number)

\* C26 as stated: to_pd fails whenever some row filter of the ops, at any
\* position, has at any depth a leaf that was built from a table of
\* another version than the table it is applied to.
C26_OtherVersionIsRejected ==
    (/\ materialized.status # "none"
     /\ \E i \in 1 .. Len(row_args(mdb_table.ops)) :
           HasLeafOfOtherVersion(row_args(mdb_table.ops)[i],
                                 mdb_table.version_number))
       => materialized.status # "OK"

(***************************************************************************)
(* Bool columns.                                                           *)
(***************************************************************************)
\* the pairs of operators that negate each other
InversePairs ==
    {<<"=", "!=">>, <<"<", ">=">>, <<">", "<=">>,
     <<"BETWEEN", "NOT BETWEEN">>, <<"IN", "NOT IN">>}

\* the bool columns that make up column: itself and those of its two sides
RECURSIVE SubColumns(_)
SubColumns(column) ==
    IF column.type = "OpArg"
    THEN {column}
    ELSE {column} \cup SubColumns(column.series_a)
                  \cup SubColumns(column.series_b)

\* C27: for the bool column at hand and every bool column it is made of,
\* negating twice gives the same bool column; the negation of a AND b is
\* (~a) OR (~b) and that of a OR b is (~a) AND (~b); the negation of a leaf
\* has the same table, column and argument and the operator paired with
\* the leaf's operator in =/!=, </>=, >/<=, BETWEEN/NOT BETWEEN, IN/NOT IN.
C27_NegationIsAnInvolution ==
    \A p \in SubColumns(bool_column) \cup SubColumns(__invert__(bool_column)) :
        /\ __invert__(__invert__(p)) = p
        /\ p.type = "OpColumn"
              => /\ __invert__(p).type = "OpColumn"
                 /\ __invert__(p).series_a = __invert__(p.series_a)
                 /\ __invert__(p).series_b = __invert__(p.series_b)
                 /\ <<p.op, __invert__(p).op>> \in {<<"AND", "OR">>, <<"OR", "AND">>}
        /\ p.type = "OpArg"
              => /\ __invert__(p).type = "OpArg"
                 /\ __invert__(p).mdb_table = p.mdb_table
                 /\ __invert__(p).column_name = p.column_name
                 /\ __invert__(p).arg = p.arg
                 /\ \/ <<p.op, __invert__(p).op>> \in InversePairs
                    \/ <<__invert__(p).op, p.op>> \in InversePairs

\* a bool column that only a negation yields: an OR of an AND and a leaf
\* with the operators NOT BETWEEN and >=
C27_Witness ==
    /\ bool_column.type = "OpColumn"
    /\ bool_column.op = "OR"
    /\ bool_column.series_a.type = "OpColumn"
    /\ bool_column.series_a.op = "AND"
    /\ bool_column.series_a.series_a.op = "NOT BETWEEN"
    /\ bool_column.series_b.op = ">="

(***************************************************************************)
(* read.                                                                   *)
(***************************************************************************)
\* the versions of the table that a read of the userspace layers, prod's
\* first, without those that are absent
VersionsPresent(userspace) ==
    SelectSeq(<<table_versions[prod_userspace_name], table_versions[userspace]>>,
              LAMBDA version : version # NoneValue)

\* C28: a read of a userspace other than prod fails exactly when the table
\* has a version neither in the userspace nor in prod; the table it
\* returns has prod's data list followed by the userspace's (whichever are
\* present), the largest version number present, the schema of the
\* userspace's version if that has one, else prod's, else the default
\* schema, and no ops.  A read of prod fails exactly when prod has no
\* version, and returns the table of prod's version.
C28_UserspaceIsLayeredOverProd ==
    last_read # NoneValue
       => LET userspace == last_read.userspace
              own == table_versions[userspace]
              prod == table_versions[prod_userspace_name]
              present == VersionsPresent(userspace)
              DataListOf(version) ==
                  IF version = NoneValue THEN <<>> ELSE version.data_list_filename
              HasSchema(version) ==
                  version # NoneValue /\ version.table_schema_filename # NoneValue
          IN  /\ last_read.status \in {"OK", "ValueError"}
              /\ last_read.status = "ValueError" <=> (own = NoneValue /\ prod = NoneValue)
              /\ (last_read.status = "OK" /\ userspace # prod_userspace_name)
                    => /\ mdb_table.data_list = DataListOf(prod) \o DataListOf(own)
                       /\ mdb_table.version_number =
                             Maximum({present[i].version_number :
                                         i \in 1 .. Len(present)})
                       /\ mdb_table.table_schema =
                             IF HasSchema(own) THEN own.table_schema_filename
                             ELSE IF HasSchema(prod) THEN prod.table_schema_filename
                             ELSE TableSchema(<<>>)
                       /\ mdb_table.ops = <<>>
              /\ (last_read.status = "OK" /\ userspace = prod_userspace_name)
                    => mdb_table = MdbTable(prod.version_number,
                                       IF HasSchema(prod)
                                       THEN prod.table_schema_filename
                                       ELSE TableSchema(<<>>),
                                       prod.data_list_filename, <<>>)

\* read returned the table of a userspace whose version is older than
\* prod's and has no schema: prod's version number and schema, the two
\* data lists, prod's first
C28_Witness ==
    /\ last_read = ReadCall("dev", "OK")
    /\ table_versions.dev # NoneValue
    /\ table_versions.prod # NoneValue
    /\ table_versions.dev.version_number < table_versions.prod.version_number
    /\ table_versions.dev.table_schema_filename = NoneValue
    /\ table_versions.prod.table_schema_filename = TableSchema(<<"k">>)
    /\ table_versions.dev.data_list_filename # table_versions.prod.data_list_filename
    /\ mdb_table = MdbTable(table_versions.prod.version_number,
                            TableSchema(<<"k">>),
                            table_versions.prod.data_list_filename
                               \o table_versions.dev.data_list_filename,
                            <<>>)

(***************************************************************************)
(* The query builder.                                                      *)
(***************************************************************************)
\* the ops of the table object at position t of table_objects
OpsOf(table_objects, list_objects, t) == list_objects[table_objects[t].ops]

\* C29: every step of __getitem__ leaves every table object that exists as
\* it is, its ops and its data list included, and makes one table object
\* with the version number, the schema and the data list (the same list
\* object) of the receiver, whose ops are a list object of its own that
\* holds the receiver's ops followed by the op of the item: the column
\* selection, the row filter, or the row filter column = TRUE of a column;
\* and no two table objects ever hold the same list object as ops.
C29_GetItemReturnsANewTable ==
    /\ [](\A t1, t2 \in 1 .. Len(tables) :
             t1 # t2 => tables[t1].ops # tables[t2].ops)
    /\ [][/\ Len(tables') = Len(tables) + 1
          /\ \A t \in 1 .. Len(tables) :
                /\ tables'[t] = tables[t]
                /\ OpsOf(tables', lists', t) = OpsOf(tables, lists, t)
                /\ lists'[tables'[t].data_list] = lists[tables[t].data_list]
          /\ \E t \in 1 .. Len(tables), item \in BuilderItems :
                LET made == tables'[Len(tables')]
                    op == IF item.type = "names"
                          THEN _SelectColumnsOp(item.names)
                          ELSE IF item.type = "MdbColumn"
                          THEN _SelectRowsOp(MdbComputedBoolColumnOpArg(
                                   item.mdb_table, item.column_name, "=", "TRUE"))
                          ELSE _SelectRowsOp(item)
                IN  /\ made.version_number = tables[t].version_number
                    /\ made.table_schema = tables[t].table_schema
                    /\ made.data_list = tables[t].data_list
                    /\ made.ops \notin {tables[u].ops : u \in 1 .. Len(tables)}
                    /\ made.ops # made.data_list
                    /\ lists'[made.ops] = Append(OpsOf(tables, lists, t), op)
         ]_vars

\* two tables were derived from the first table, and a third from the
\* first of the two: each has its own ops, the first table has none
C29_Witness ==
    /\ Len(tables) = 4
    /\ OpsOf(tables, lists, 1) = <<>>
    /\ Len(OpsOf(tables, lists, 2)) = 1
    /\ Len(OpsOf(tables, lists, 3)) = 1
    /\ OpsOf(tables, lists, 2) # OpsOf(tables, lists, 3)
    /\ Len(OpsOf(tables, lists, 4)) = 2
    /\ OpsOf(tables, lists, 4)[1] = OpsOf(tables, lists, 2)[1]
    /\ OpsOf(tables, lists, 4)[2].type = "_SelectRowsOp"
    /\ OpsOf(tables, lists, 4)[2].filter_column.arg = "TRUE"

(***************************************************************************)
(* The job runner.                                                         *)
(***************************************************************************)
\* the states of a payload after which the run request is over
TerminalStates == {"SUCCEEDED", "FAILED"}

\* the events record RUNNING right after a terminal state
OutOfOrder(events) ==
    \E i \in 1 .. Len(events) - 1 :
        /\ events[i].state \in TerminalStates
        /\ events[i + 1].state = "RUNNING"

\* C30: the event log comes to record RUNNING after a terminal state, and
\* it does so in one way only: run stands at its await with the server's
\* response RUNNING, the process has ended, poll_jobs has recorded the
\* terminal state as the last event, and the continuation of run appends
\* RUNNING to it.
C30_RunningIsRecordedAfterTheTerminalState ==
    [][(OutOfOrder(event_log') /\ ~OutOfOrder(event_log))
          => /\ run_call.pc = "responded"
             /\ run_call.states = <<"RUNNING">>
             /\ run_call'.pc = "done"
             /\ process.state \in ExitStates
             /\ poll_call' = poll_call
             /\ last_event(event_log).state \in TerminalStates
             /\ event_log' = Append(event_log, JobPayload(RunRequestId, "RUNNING"))
      ]_vars

\* run has ended and the event log ends with SUCCEEDED, recorded by
\* poll_jobs, followed by the RUNNING of run
C30_Witness ==
    /\ run_call.pc = "done"
    /\ poll_call.pc = "done"
    /\ Len(event_log) >= 3
    /\ event_log[1].state = "RUN_REQUESTED"
    /\ event_log[Len(event_log) - 1].state = "SUCCEEDED"
    /\ last_event(event_log).state = "RUNNING"

\* the process states that the job runner does not handle when it polls
UnhandledPolledStates == {"CANCELLED", "UNKNOWN", "ERROR_GETTING_STATE"}

\* the results of the server that run does not handle
UnhandledRunResults == {"REQUEST_IS_DUPLICATE", "RUN_REQUEST_FAILED"}

\* C31: the continuation of poll_jobs on a polled state CANCELLED, UNKNOWN
\* or ERROR_GETTING_STATE raises NotImplementedError, and the continuation
\* of run on the result REQUEST_IS_DUPLICATE or RUN_REQUEST_FAILED raises
\* NotImplementedError; neither appends an event to the event log.
C31_UnhandledStatesRaise ==
    [][/\ (/\ poll_call.pc = "responded"
           /\ poll_call' # poll_call
           /\ poll_call.states[1] \in UnhandledPolledStates)
          => /\ poll_call'.pc = "NotImplementedError"
             /\ event_log' = event_log
       /\ (/\ run_call.pc = "responded"
           /\ run_call' # run_call
           /\ run_call.states[1] \in UnhandledRunResults)
          => /\ run_call'.pc = "NotImplementedError"
             /\ event_log' = event_log
      ]_vars

\* poll_jobs has raised on CANCELLED and the second run on
\* REQUEST_IS_DUPLICATE
C31_Witness ==
    /\ poll_call.pc = "NotImplementedError"
    /\ poll_call.states = <<"CANCELLED">>
    /\ run_call.pc = "NotImplementedError"
    /\ run_call.states = <<"REQUEST_IS_DUPLICATE">>

\* the events that a step appended to the event log
Appended == SubSeq(event_log', Len(event_log) + 1, Len(event_log'))

\* C40: the continuation of poll_jobs appends only when the polled state
\* differs from the state of the latest event of the topic; when that event
\* is RUN_REQUESTED and the polled state is not RUNNING, it appends RUNNING
\* and then the polled state; every event it appends differs in state from
\* the event before it.  In every event log that run and poll_jobs wrote,
\* no terminal state directly follows RUN_REQUESTED.
C40_PollAppendsOnlyChanges ==
    /\ [](\A i \in 1 .. Len(event_log) - 1 :
             event_log[i].state = "RUN_REQUESTED"
                => event_log[i + 1].state \notin TerminalStates)
    /\ [][(/\ poll_call.pc = "responded"
           /\ poll_call' # poll_call
           /\ event_log' # event_log)
          => /\ NewPayloadState(poll_call.states[1]) # last_event(event_log).state
             /\ last_event(event_log').state = NewPayloadState(poll_call.states[1])
             /\ (/\ last_event(event_log).state = "RUN_REQUESTED"
                 /\ NewPayloadState(poll_call.states[1]) # "RUNNING")
                => /\ Len(Appended) = 2
                   /\ Appended[1].state = "RUNNING"
             /\ \A j \in Len(event_log) + 1 .. Len(event_log') :
                   event_log'[j].state # event_log'[j - 1].state
      ]_vars

\* poll_jobs found the process ended when the latest event was
\* RUN_REQUESTED: the event log is RUN_REQUESTED, RUNNING, FAILED
C40_Witness ==
    /\ poll_call.pc = "done"
    /\ poll_call.states = <<"PYTHON_EXCEPTION">>
    /\ run_call.pc = "responded"
    /\ Len(event_log) = 3
    /\ event_log[1].state = "RUN_REQUESTED"
    /\ event_log[2].state = "RUNNING"
    /\ event_log[3].state = "FAILED"

(***************************************************************************)
(* The nextrun client.                                                     *)
(***************************************************************************)
\* C32: the function arguments are pickled with the protocol of the version
\* of the interpreter of the deployment (5 from 3.8.0, 4 from 3.4.0, 3 from
\* 3.0.0), capped at the highest protocol of the client's interpreter, and
\* a deployment under Python 2 is rejected.
C32_ProtocolOfTheRemoteInterpreter ==
    client_call.status # "called"
       => IF PickleProtocol(client_call.remote_interpreter).raises
          THEN client_call.status = "NotImplementedError"
          ELSE /\ client_call.status # "NotImplementedError"
               /\ client_call.protocol =
                     min(PickleProtocol(client_call.remote_interpreter).protocol,
                         client_call.highest_protocol)
               /\ client_call.protocol <= client_call.highest_protocol

(***************************************************************************)
(* Further properties of the coordinator.                                  *)
(***************************************************************************)
\* C33 as stated: a task that update_grid_task_state_and_get_next pops and
\* returns has state RUN_REQUESTED.
C33_PoppedTaskIsRunRequested ==
    \A job_id \in ValidJobIds, task_id \in UpdateTaskIds,
       process_state \in ReportedStates :
        LET r == update_grid_task_state_and_get_next_result(
                     grid_jobs, job_id, task_id, process_state)
        IN  r.task_id >= 0
               => TaskState(r.grid_jobs[job_id].all_tasks, r.task_id)
                     = "RUN_REQUESTED"

\* C33: get_next_job changes the tasks of no grid job, and
\* update_grid_task_state_and_get_next leaves every task in the state it
\* had, the task it pops included, but the task of the job that the request
\* names, whose state becomes the reported one.
C33_OnlyTheNamedTaskChangesState ==
    /\ \A r \in get_next_job_results(simple_jobs, grid_jobs) :
          \A id \in DOMAIN grid_jobs :
              r.grid_jobs[id].all_tasks = grid_jobs[id].all_tasks
    /\ \A job_id \in ValidJobIds, task_id \in UpdateTaskIds,
          process_state \in ReportedStates :
           LET r == update_grid_task_state_and_get_next_result(
                        grid_jobs, job_id, task_id, process_state)
           IN  /\ DOMAIN r.grid_jobs = DOMAIN grid_jobs
               /\ \A id \in DOMAIN grid_jobs :
                     /\ Len(r.grid_jobs[id].all_tasks) = Len(grid_jobs[id].all_tasks)
                     /\ \A i \in 1 .. Len(grid_jobs[id].all_tasks) :
                           LET before == grid_jobs[id].all_tasks[i]
                               after == r.grid_jobs[id].all_tasks[i]
                           IN  /\ after.task_id = before.task_id
                               /\ after.state =
                                    IF id = job_id /\ before.task_id = task_id
                                    THEN process_state
                                    ELSE before.state

\* C33 witness: the last call popped and returned a task whose state
\* SUCCEEDED had been reported before it was handed out, and another task of
\* the job is still RUN_REQUESTED.
C33_Witness ==
    /\ last.rpc = "update_grid_task_state_and_get_next"
    /\ last.job_id \in DOMAIN grid_jobs
    /\ last.ret_task >= 0
    /\ TaskState(grid_jobs[last.job_id].all_tasks, last.ret_task) = "SUCCEEDED"
    /\ \E i \in 1 .. Len(grid_jobs[last.job_id].all_tasks) :
          grid_jobs[last.job_id].all_tasks[i].state = "RUN_REQUESTED"

\* num_current_grid_workers of the grid job id in the grid-job map gj
Workers_of(gj, id) == gj[id].num_current_grid_workers

C36_NoMoreWorkersThanQueuedTasks ==
    /\ \A id \in DOMAIN grid_jobs : Workers_of(grid_jobs, id) >= 0
    /\ \A r \in get_next_job_results(simple_jobs, grid_jobs) :
          LET id == r.job.job_id
          IN  id \in DOMAIN grid_jobs
                 => /\ Workers_of(r.grid_jobs, id)
                          <= Len(r.grid_jobs[id].unassigned_tasks)
                    /\ Workers_of(r.grid_jobs, id) = Workers_of(grid_jobs, id) + 1
                    /\ r.grid_jobs[id].unassigned_tasks
                          = grid_jobs[id].unassigned_tasks
    /\ \A id \in DOMAIN grid_jobs :
          Workers_of(grid_jobs, id) >= Len(grid_jobs[id].unassigned_tasks)
             => \A r \in get_next_job_results(simple_jobs, grid_jobs) :
                   r.job.job_id # id

\* C36 witness: get_next_job has just returned a grid job with two queued
\* tasks for the second time: every queued task has its worker, no task was
\* handed out yet.
C36_Witness ==
    /\ last.rpc = "get_next_job"
    /\ last.job_id \in DOMAIN grid_jobs
    /\ Len(grid_jobs[last.job_id].unassigned_tasks) = 2
    /\ Workers_of(grid_jobs, last.job_id) = 2
    /\ dispatched[last.job_id] = <<>>

C38_FailedAddTasksChangesNothing ==
    \A job_id \in ValidJobIds, tasks \in TaskLists, all_tasks_added \in BOOLEAN :
        LET r == add_tasks_to_grid_job_result(job_id, tasks, all_tasks_added)
        IN  r.status = "ValueError" => SameMaps(r)

(***************************************************************************)
(* Further properties of the reader.                                       *)
(***************************************************************************)
\* the entries i < j of the data list are deletes over different column
\* sets, and no delete_all is newer than the older of them
ReachedDeletesOfDifferentColumns(table, i, j) ==
    /\ i < j
    /\ table.data_list[i].data_file_type = "delete"
    /\ table.data_list[j].data_file_type = "delete"
    /\ table.data_list[i].columns # table.data_list[j].columns
    /\ \A n \in i + 1 .. Len(table.data_list) :
          table.data_list[n].data_file_type # "delete_all"

\* C34: when to_pd returns, and no exception other than the
\* NotImplementedError of the deletes ended it, a data list that holds two
\* deletes over different column sets, both newer than every delete_all,
\* has made it raise that NotImplementedError: whichever of the two is the
\* newer, and also when one of the two has no rows.
C34_DeletesOfDifferentColumnsAreRefused ==
    materialized.status \in {"OK", "NotImplementedError"}
       => \A i, j \in 1 .. Len(mdb_table.data_list) :
             ReachedDeletesOfDifferentColumns(mdb_table, i, j)
                => materialized.status = "NotImplementedError"

\* the table under the column list cols alone
Projected(table, cols) ==
    MdbTable(table.version_number, table.table_schema, table.data_list,
             <<_SelectColumnsOp(cols)>>)

\* the table as it was opened: no op yet
Unprojected(table) ==
    MdbTable(table.version_number, table.table_schema, table.data_list, <<>>)

\* C39: when to_pd returns for t[cols], cols columns of the table and t a
\* table that to_pd materializes, it has returned the rows of t.to_pd(),
\* each restricted to cols, also when cols lacks a deduplication key of
\* the schema.
C39_ProjectionKeepsTheRows ==
    \A cols \in {{"v"}, AllColumns} :
        /\ materialized.status # "none"
        /\ mdb_table = Projected(mdb_table, cols)
        /\ to_pd_result(Unprojected(mdb_table)).status = "OK"
        => LET whole == to_pd_result(Unprojected(mdb_table)).rows
           IN  /\ materialized.status = "OK"
               /\ materialized.rows =
                     [n \in 1 .. Len(whole) |-> Project(whole[n], cols)]

====
